---- MODULE Spec2Model ----
(***************************************************************************)
(* A model of the CKC claim-checking protocol of tinyrust:                 *)
(*   - the TinyRAM emulator (tinyvm/src/vm.rs) with its usize arithmetic,  *)
(*   - the instrumented emulator that hashes the state stream,             *)
(*   - the prover (ckc/src/prover.rs) and the verifier                     *)
(*     (ckc/src/verifier.rs).                                              *)
(*                                                                         *)
(* A usize is kept as its USIZE_BYTES little-endian bytes, so that the     *)
(* 64-bit width of the machine word is exact.  What a Rust build does on   *)
(* integer overflow depends on the build profile: overflow_checks is the   *)
(* profile (TRUE: the operation panics, FALSE: it wraps).                  *)
(***************************************************************************)
EXTENDS Integers, Sequences, FiniteSets, TLC

VARIABLES
    overflow_checks,  \* build profile: do integer overflows panic?
    emu,              \* an emulator instance driven through the TinyVM API
    emu_log,          \* ghost: what the runs of emu returned
    prover,           \* the prover's session
    proof,            \* the proof artifact handed to the verifier
    verifier,         \* the verifier's session
    gsl_eta,          \* values compute_eta has returned so far
    gsl_q,            \* values compute_q has returned so far
    call              \* ghost: one call of a free function and what it returned

vars ==
    <<overflow_checks, emu, emu_log, prover, proof, verifier, gsl_eta, gsl_q, call>>

(***************************************************************************)
(* Bounds of the model                                                     *)
(***************************************************************************)
MaxSteps == 10      \* instructions one run may execute before it counts as hung
MaxMemory == 12     \* bytes of emulated memory the host can allocate
MaxInput == 2       \* inputs are 0..MaxInput
MaxRuns == 3        \* runs recorded for one emulator instance

(***************************************************************************)
(* usize arithmetic on little-endian byte strings                          *)
(***************************************************************************)
USIZE_BYTES == 8
USIZE_BITS == 64

RECURSIVE NatToLe(_, _)
NatToLe(n, k) ==
    IF k = 0 THEN <<>> ELSE <<n % 256>> \o NatToLe(n \div 256, k - 1)

Usize(n) == NatToLe(n, USIZE_BYTES)

USIZE_ZERO == Usize(0)
USIZE_MAX == [i \in 1..USIZE_BYTES |-> 255]

\* x < 2^24: the value fits a model integer
IsSmall(x) == \A i \in 4..USIZE_BYTES : x[i] = 0
ToNat(x) == x[1] + 256 * x[2] + 65536 * x[3]

RECURSIVE AddLe(_, _, _)
\* a + b + c digit by digit; the carry out is the last digit of the result
AddLe(a, b, c) ==
    IF a = <<>> THEN <<c>>
    ELSE LET s == Head(a) + Head(b) + c
         IN  <<s % 256>> \o AddLe(Tail(a), Tail(b), s \div 256)

BitNot(a) == [i \in 1..Len(a) |-> 255 - a[i]]

\* a - b as a + ~b + 1; the last digit is 1 iff there was no borrow
SubLe(a, b) == AddLe(a, BitNot(b), 1)

Low(a) == SubSeq(a, 1, USIZE_BYTES)

\* v: the wrapped result, ovf: the exact result does not fit a usize
chk_add(a, b) ==
    LET r == AddLe(a, b, 0) IN [v |-> Low(r), ovf |-> r[USIZE_BYTES + 1] = 1]

chk_sub(a, b) ==
    LET r == SubLe(a, b) IN [v |-> Low(r), ovf |-> r[USIZE_BYTES + 1] = 0]

RECURSIVE ColSum(_, _, _, _)
ColSum(a, b, k, i) ==
    IF i > USIZE_BYTES THEN 0
    ELSE (IF k + 1 - i \in 1..USIZE_BYTES THEN a[i] * b[k + 1 - i] ELSE 0)
         + ColSum(a, b, k, i + 1)

RECURSIVE MulDigits(_, _, _, _)
MulDigits(a, b, k, c) ==
    IF k > 2 * USIZE_BYTES THEN <<>>
    ELSE LET s == ColSum(a, b, k, 1) + c
         IN  <<s % 256>> \o MulDigits(a, b, k + 1, s \div 256)

chk_mul(a, b) ==
    LET r == MulDigits(a, b, 1, 0)
    IN  [v |-> Low(r),
         ovf |-> \E i \in (USIZE_BYTES + 1)..(2 * USIZE_BYTES) : r[i] # 0]

ULt(a, b) == chk_sub(a, b).ovf
ULe(a, b) == ~ULt(b, a)

ByteAt(a, i) == IF i \in 1..USIZE_BYTES THEN a[i] ELSE 0

Pow2(n) == IF n = 0 THEN 1 ELSE 2 ^ n

\* a << n and a >> n for n < 64, bits shifted out are lost
ShlN(a, n) ==
    [i \in 1..USIZE_BYTES |->
        ((ByteAt(a, i - (n \div 8)) * Pow2(n % 8)) % 256)
        + (ByteAt(a, i - (n \div 8) - 1) \div Pow2(8 - (n % 8)))]

ShrN(a, n) ==
    [i \in 1..USIZE_BYTES |->
        (ByteAt(a, i + (n \div 8)) \div Pow2(n % 8))
        + ((ByteAt(a, i + (n \div 8) + 1) * Pow2(8 - (n % 8))) % 256)]

\* the shift amount of `a << s`: s >= 64 overflows; a wrapping shift keeps
\* s mod 64
chk_shift(s) ==
    [n |-> s[1] % USIZE_BITS,
     ovf |-> ~(s[1] < USIZE_BITS /\ \A i \in 2..USIZE_BYTES : s[i] = 0)]

RECURSIVE BitOp(_, _, _, _)
BitOp(op, x, y, n) ==
    IF n = 0 THEN 0
    ELSE LET bx == x % 2
             by == y % 2
             bit == CASE op = "and" -> bx * by
                      [] op = "or"  -> IF bx + by > 0 THEN 1 ELSE 0
                      [] op = "xor" -> (bx + by) % 2
         IN  bit + 2 * BitOp(op, x \div 2, y \div 2, n - 1)

BitAnd(a, b) == [i \in 1..USIZE_BYTES |-> BitOp("and", a[i], b[i], 8)]
BitOr(a, b) == [i \in 1..USIZE_BYTES |-> BitOp("or", a[i], b[i], 8)]
BitXor(a, b) == [i \in 1..USIZE_BYTES |-> BitOp("xor", a[i], b[i], 8)]

BitAt(a, i) == (a[(i \div 8) + 1] \div Pow2(i % 8)) % 2

RECURSIVE DivLoop(_, _, _, _)
\* binary long division from bit i down: qr.quot is the quotient so far,
\* qr.rem (one byte wider) the remainder
DivLoop(a, b9, i, qr) ==
    IF i < 0 \/ qr.quot = <<>> THEN [quot |-> qr.quot, rem |-> Low(qr.rem)]
    ELSE LET r2 == SubSeq(AddLe(qr.rem, qr.rem, BitAt(a, i)), 1, USIZE_BYTES + 1)
             d == SubLe(r2, b9)
             ge == d[USIZE_BYTES + 2] = 1
         IN  DivLoop(a, b9, i - 1,
                     [quot |-> Low(AddLe(qr.quot, qr.quot, IF ge THEN 1 ELSE 0)),
                      rem |-> IF ge THEN SubSeq(d, 1, USIZE_BYTES + 1) ELSE r2])

DivMod(a, b) ==
    DivLoop(a, b \o <<0>>, USIZE_BITS - 1,
            [quot |-> USIZE_ZERO, rem |-> NatToLe(0, USIZE_BYTES + 1)])

Reverse(s) == [i \in 1..Len(s) |-> s[Len(s) + 1 - i]]

to_be_bytes(x) == Reverse(x)
to_le_bytes(x) == x
from_le_bytes(bytes) == bytes

\* i64 <- u64 and back: the same 64 bits read in two's complement
to_signed(x) == [neg |-> x[USIZE_BYTES] >= 128, bits |-> x]
to_unsigned(i) == IF i >= 0 THEN Usize(i) ELSE BitNot(Usize(-i - 1))
i64_lt(a, b) == IF a.neg # b.neg THEN a.neg ELSE ULt(a.bits, b.bits)
i64_le(a, b) == ~i64_lt(b, a)

(***************************************************************************)
(* Programs: parser::Instruction, Argument, Register, Params               *)
(***************************************************************************)
Register(i) == [index |-> i]
Imm(x) == [kind |-> "Imm", x |-> x]
Reg(i) == [kind |-> "Reg", reg |-> Register(i)]
Label(ident) == [kind |-> "Label", ident |-> ident]

\* three-operand, two-operand and one-operand instructions
I3(op, reg1, reg2, arg) == [op |-> op, reg1 |-> Register(reg1), reg2 |-> Register(reg2), arg |-> arg]
I2(op, reg, arg) == [op |-> op, reg |-> Register(reg), arg |-> arg]
I1(op, arg) == [op |-> op, arg |-> arg]

Ops3 == {"and", "or", "xor", "add", "sub", "mull", "umulh", "smulh",
         "udiv", "umod", "shl", "shr"}
Ops2 == {"not", "cmpe", "cmpa", "cmpae", "cmpg", "cmpge", "mov", "cmov",
         "store.b", "store.w", "load.b", "load.w", "read"}
Ops1 == {"jmp", "cjmp", "cnjmp", "answer"}

(***************************************************************************)
(* tinyvm/src/vm.rs: State and TinyVM                                      *)
(***************************************************************************)
State_init(program, register_nb) ==
    [running |-> FALSE,
     pc |-> USIZE_ZERO,
     flag |-> FALSE,
     registers |-> [i \in 1..register_nb |-> USIZE_ZERO],
     program |-> program,
     tape1 |-> <<>>,
     tape2 |-> <<>>,
     memory |-> <<>>]

\* an encoding that puts the flag byte first: C26 must tell it from the
\* layout of the code
process_state_flag_first(state) ==
    << <<IF state.flag THEN 1 ELSE 0>> >>
    \o <<to_be_bytes(state.pc)>>
    \o [i \in 1..Len(state.registers) |-> to_be_bytes(state.registers[i])]
    \o [i \in 1..Len(state.memory) |-> <<state.memory[i]>>]

\* the byte slices process_state hands to its callback, in call order
process_state(state) ==
    <<to_be_bytes(state.pc)>>
    \o << <<IF state.flag THEN 1 ELSE 0>> >>
    \o [i \in 1..Len(state.registers) |-> to_be_bytes(state.registers[i])]
    \o [i \in 1..Len(state.memory) |-> <<state.memory[i]>>]

\* a reset that leaves registers and memory as they are: C1 must tell it
\* from the reset of the code
State_reset_keeps_data(state) ==
    [state EXCEPT !.running = FALSE,
                  !.pc = USIZE_ZERO,
                  !.flag = FALSE,
                  !.tape1 = <<>>,
                  !.tape2 = <<>>]

State_reset(state) ==
    LET reg == Len(state.registers)
    IN  [state EXCEPT !.running = FALSE,
                      !.pc = USIZE_ZERO,
                      !.flag = FALSE,
                      !.registers = [i \in 1..reg |-> USIZE_ZERO],
                      !.tape1 = <<>>,
                      !.tape2 = <<>>,
                      !.memory = <<>>]

\* trap is not a field of the struct: it is set when the thread that owns
\* the VM has panicked in one of its methods
TinyVM_new(params, program, resolved_labels) ==
    [params |-> params,
     resolved_labels |-> resolved_labels,
     state |-> State_init(program, params.registers),
     result |-> Usize(1),
     trap |-> FALSE]

Panic(vm) == [vm EXCEPT !.trap = TRUE]

load_tapes(vm, tape) ==
    [vm EXCEPT !.state.tape1 = tape[1], !.state.tape2 = tape[2]]

\* Vec::pop: the last element of the vector
Vec_pop(v) == [rest |-> SubSeq(v, 1, Len(v) - 1), value |-> v[Len(v)]]

start(vm) == [vm EXCEPT !.state.running = TRUE]
stop(vm) == [vm EXCEPT !.state.running = FALSE]

read_reg(vm, reg) == vm.state.registers[reg.index + 1]
write_reg(vm, reg, val) == [vm EXCEPT !.state.registers[reg.index + 1] = val]
set_flag(vm, b) == [vm EXCEPT !.state.flag = b]

resolve(vm, arg) ==
    CASE arg.kind = "Imm" -> to_unsigned(arg.x)
      [] arg.kind = "Reg" -> read_reg(vm, arg.reg)
      [] arg.kind = "Label" -> vm.resolved_labels[arg.ident]

segfault == I1("answer", Imm(1))

\* (1 << word_size) - 1, or usize::MAX for a 64-bit word
value_mask(vm) ==
    IF vm.params.word_size = USIZE_BITS THEN USIZE_MAX
    ELSE chk_sub(ShlN(Usize(1), vm.params.word_size), Usize(1)).v

\* 1 << (word_size - 1)
msb_mask(vm) == ShlN(Usize(1), vm.params.word_size - 1)

and(vm, reg1, reg2, arg) ==
    LET result == BitAnd(read_reg(vm, reg2), resolve(vm, arg))
    IN  set_flag(write_reg(vm, reg1, result), result = USIZE_ZERO)

or(vm, reg1, reg2, arg) ==
    LET result == BitOr(read_reg(vm, reg2), resolve(vm, arg))
    IN  set_flag(write_reg(vm, reg1, result), result = USIZE_ZERO)

xor(vm, reg1, reg2, arg) ==
    LET result == BitXor(read_reg(vm, reg2), resolve(vm, arg))
    IN  set_flag(write_reg(vm, reg1, result), result = USIZE_ZERO)

not(vm, reg, arg) ==
    LET result == BitNot(resolve(vm, arg))
    IN  set_flag(write_reg(vm, reg, result), result = USIZE_ZERO)

add(vm, reg1, reg2, arg) ==
    LET value1 == read_reg(vm, reg2)
        value2 == resolve(vm, arg)
        sum == chk_add(value1, value2)
        result == BitAnd(sum.v, value_mask(vm))
        carry == BitAnd(result, msb_mask(vm)) # USIZE_ZERO
    IN  IF sum.ovf /\ overflow_checks THEN Panic(vm)
        ELSE set_flag(write_reg(vm, reg1, result), carry)

sub(vm, reg1, reg2, arg) ==
    LET value1 == read_reg(vm, reg2)
        value2 == resolve(vm, arg)
        t1 == chk_sub(value_mask(vm), value2)
        t2 == chk_add(t1.v, value1)
        t3 == chk_add(t2.v, Usize(1))
        result == BitAnd(t3.v, value_mask(vm))
        carry == BitAnd(result, msb_mask(vm)) # USIZE_ZERO
    IN  IF (t1.ovf \/ t2.ovf \/ t3.ovf) /\ overflow_checks THEN Panic(vm)
        ELSE set_flag(write_reg(vm, reg1, result), ~carry)

mull(vm, reg1, reg2, arg) ==
    LET value1 == read_reg(vm, reg2)
        value2 == resolve(vm, arg)
        prod == chk_mul(value1, value2)
        carry == ULt(value_mask(vm), prod.v)
        result == BitAnd(prod.v, value_mask(vm))
    IN  IF prod.ovf /\ overflow_checks THEN Panic(vm)
        ELSE set_flag(write_reg(vm, reg1, result), carry)

udiv(vm, reg1, reg2, arg) ==
    LET value1 == resolve(vm, arg)
        value2 == read_reg(vm, reg2)
    IN  IF value1 = USIZE_ZERO
        THEN set_flag(write_reg(vm, reg1, USIZE_ZERO), TRUE)
        ELSE set_flag(write_reg(vm, reg1,
                        BitAnd(DivMod(value2, value1).quot, value_mask(vm))), FALSE)

umod(vm, reg1, reg2, arg) ==
    LET value1 == resolve(vm, arg)
        value2 == read_reg(vm, reg2)
    IN  IF value1 = USIZE_ZERO
        THEN set_flag(write_reg(vm, reg1, USIZE_ZERO), TRUE)
        ELSE set_flag(write_reg(vm, reg1,
                        BitAnd(DivMod(value2, value1).rem, value_mask(vm))), FALSE)

shl(vm, reg1, reg2, arg) ==
    LET value1 == resolve(vm, arg)
        value2 == read_reg(vm, reg2)
        sh == chk_shift(value1)
        result == BitAnd(ShlN(value2, sh.n), value_mask(vm))
        carry == BitAnd(result, msb_mask(vm)) # USIZE_ZERO
    IN  IF sh.ovf /\ overflow_checks THEN Panic(vm)
        ELSE set_flag(write_reg(vm, reg1, result), carry)

shr(vm, reg1, reg2, arg) ==
    LET value1 == resolve(vm, arg)
        value2 == read_reg(vm, reg2)
        sh == chk_shift(value1)
        result == BitAnd(ShrN(value2, sh.n), value_mask(vm))
        carry == BitAnd(result, Usize(1)) # USIZE_ZERO
    IN  IF sh.ovf /\ overflow_checks THEN Panic(vm)
        ELSE set_flag(write_reg(vm, reg1, result), carry)

cmpe(vm, reg, arg) == set_flag(vm, resolve(vm, arg) = read_reg(vm, reg))
cmpa(vm, reg, arg) == set_flag(vm, ULt(resolve(vm, arg), read_reg(vm, reg)))
cmpae(vm, reg, arg) == set_flag(vm, ULe(resolve(vm, arg), read_reg(vm, reg)))

cmpg(vm, reg, arg) ==
    set_flag(vm, i64_lt(to_signed(resolve(vm, arg)), to_signed(read_reg(vm, reg))))

cmpge(vm, reg, arg) ==
    set_flag(vm, i64_le(to_signed(resolve(vm, arg)), to_signed(read_reg(vm, reg))))

answer(vm, arg) == stop([vm EXCEPT !.result = resolve(vm, arg)])

jmp(vm, arg) == resolve(vm, arg)

cjmp(vm, arg) ==
    IF vm.state.flag THEN jmp(vm, arg) ELSE chk_add(vm.state.pc, Usize(1)).v

\* a cnjmp that jumps when flag is set, as cjmp does: C29 must tell it from
\* the cnjmp of the code
cnjmp_when_set(vm, arg) ==
    IF vm.state.flag THEN jmp(vm, arg) ELSE chk_add(vm.state.pc, Usize(1)).v

cnjmp(vm, arg) ==
    IF vm.state.flag THEN chk_add(vm.state.pc, Usize(1)).v ELSE jmp(vm, arg)

read_primary_tape(vm) ==
    IF vm.state.tape1 = <<>> THEN [vm |-> vm, value |-> USIZE_ZERO]
    ELSE [vm |-> [vm EXCEPT !.state.tape1 = Vec_pop(vm.state.tape1).rest],
          value |-> Vec_pop(vm.state.tape1).value]

read_secondary_tape(vm) ==
    IF vm.state.tape2 = <<>> THEN [vm |-> vm, value |-> USIZE_ZERO]
    ELSE [vm |-> [vm EXCEPT !.state.tape2 = Vec_pop(vm.state.tape2).rest],
          value |-> Vec_pop(vm.state.tape2).value]

read(vm, reg, arg) ==
    LET tape == resolve(vm, arg)
        got == CASE tape = Usize(0) /\ vm.state.tape1 # <<>> ->
                        read_primary_tape(set_flag(vm, FALSE))
                 [] tape = Usize(1) /\ vm.state.tape2 # <<>> ->
                        read_secondary_tape(set_flag(vm, FALSE))
                 [] OTHER -> [vm |-> set_flag(vm, TRUE), value |-> USIZE_ZERO]
    IN  write_reg(got.vm, reg, got.value)

mov(vm, reg, arg) == write_reg(vm, reg, resolve(vm, arg))

cmov(vm, reg, arg) == IF vm.state.flag THEN mov(vm, reg, arg) ELSE vm

\* Vec::resize(new_len, 0)
Vec_resize(v, new_len) ==
    [i \in 1..new_len |-> IF i <= Len(v) THEN v[i] ELSE 0]

\* can the host give the vector new_len bytes?  (new_len is a usize)
CanAllocate(new_len) == IsSmall(new_len) /\ ToNat(new_len) <= MaxMemory

store_b(vm, arg, reg) ==
    LET addr == resolve(vm, arg)
        result == BitAnd(read_reg(vm, reg), value_mask(vm))
        new_len == chk_add(addr, Usize(1))
        grow == ULe(Usize(Len(vm.state.memory)), addr)
    IN  IF grow /\ ((new_len.ovf /\ overflow_checks) \/ ~CanAllocate(new_len.v))
        THEN Panic(vm)
        ELSE LET mem == IF grow THEN Vec_resize(vm.state.memory, ToNat(new_len.v))
                        ELSE vm.state.memory
             IN  IF ~(IsSmall(addr) /\ ToNat(addr) < Len(mem)) THEN Panic(vm)
                 ELSE [vm EXCEPT !.state.memory =
                            [mem EXCEPT ![ToNat(addr) + 1] = result[1]]]

store_w(vm, arg, reg) ==
    LET addr == resolve(vm, arg)
        value == read_reg(vm, reg)
        end == chk_add(addr, Usize(USIZE_BYTES))
        grow == ULt(Usize(Len(vm.state.memory)), end.v)
    IN  IF (end.ovf /\ overflow_checks) \/ (grow /\ ~CanAllocate(end.v))
        THEN Panic(vm)
        ELSE LET mem == IF grow THEN Vec_resize(vm.state.memory, ToNat(end.v))
                        ELSE vm.state.memory
             IN  IF ~(IsSmall(addr) /\ ULe(addr, end.v) /\ ToNat(end.v) <= Len(mem))
                 THEN Panic(vm)
                 ELSE [vm EXCEPT !.state.memory =
                        [i \in 1..Len(mem) |->
                            IF i > ToNat(addr) /\ i <= ToNat(addr) + USIZE_BYTES
                            THEN to_le_bytes(value)[i - ToNat(addr)]
                            ELSE mem[i]]]

load_b(vm, reg, arg) ==
    LET addr == resolve(vm, arg)
    IN  IF ~(IsSmall(addr) /\ ToNat(addr) < Len(vm.state.memory)) THEN Panic(vm)
        ELSE write_reg(vm, reg, Usize(vm.state.memory[ToNat(addr) + 1]))

load_w(vm, reg, arg) ==
    LET addr == resolve(vm, arg)
        end == chk_add(addr, Usize(USIZE_BYTES))
    IN  IF (end.ovf /\ overflow_checks)
           \/ ~(IsSmall(addr) /\ IsSmall(end.v) /\ ULe(addr, end.v)
                /\ ToNat(end.v) <= Len(vm.state.memory))
        THEN Panic(vm)
        ELSE write_reg(vm, reg,
                from_le_bytes(SubSeq(vm.state.memory, ToNat(addr) + 1, ToNat(end.v))))

\* the VM after the instruction and the pc it returns
execute(vm, instr) ==
    LET inc == chk_add(vm.state.pc, Usize(1))
        next_pc == inc.v
        op == instr.op
        Same(v) == [vm |-> v, next_pc |-> next_pc]
    IN  IF inc.ovf /\ overflow_checks THEN Same(Panic(vm))
        ELSE CASE op = "and" -> Same(and(vm, instr.reg1, instr.reg2, instr.arg))
          [] op = "or" -> Same(or(vm, instr.reg1, instr.reg2, instr.arg))
          [] op = "xor" -> Same(xor(vm, instr.reg1, instr.reg2, instr.arg))
          [] op = "not" -> Same(not(vm, instr.reg, instr.arg))
          [] op = "add" -> Same(add(vm, instr.reg1, instr.reg2, instr.arg))
          [] op = "sub" -> Same(sub(vm, instr.reg1, instr.reg2, instr.arg))
          [] op = "mull" -> Same(mull(vm, instr.reg1, instr.reg2, instr.arg))
          [] op \in {"umulh", "smulh"} -> Same(Panic(vm))
          [] op = "udiv" -> Same(udiv(vm, instr.reg1, instr.reg2, instr.arg))
          [] op = "umod" -> Same(umod(vm, instr.reg1, instr.reg2, instr.arg))
          [] op = "shl" -> Same(shl(vm, instr.reg1, instr.reg2, instr.arg))
          [] op = "shr" -> Same(shr(vm, instr.reg1, instr.reg2, instr.arg))
          [] op = "cmpe" -> Same(cmpe(vm, instr.reg, instr.arg))
          [] op = "cmpa" -> Same(cmpa(vm, instr.reg, instr.arg))
          [] op = "cmpae" -> Same(cmpae(vm, instr.reg, instr.arg))
          [] op = "cmpg" -> Same(cmpg(vm, instr.reg, instr.arg))
          [] op = "cmpge" -> Same(cmpge(vm, instr.reg, instr.arg))
          [] op = "mov" -> Same(mov(vm, instr.reg, instr.arg))
          [] op = "cmov" -> Same(cmov(vm, instr.reg, instr.arg))
          [] op = "jmp" -> [vm |-> vm, next_pc |-> jmp(vm, instr.arg)]
          [] op = "cjmp" -> [vm |-> vm, next_pc |-> cjmp(vm, instr.arg)]
          [] op = "cnjmp" -> [vm |-> vm, next_pc |-> cnjmp(vm, instr.arg)]
          [] op = "store.b" -> Same(store_b(vm, instr.arg, instr.reg))
          [] op = "store.w" -> Same(store_w(vm, instr.arg, instr.reg))
          [] op = "load.b" -> Same(load_b(vm, instr.reg, instr.arg))
          [] op = "load.w" -> Same(load_w(vm, instr.reg, instr.arg))
          [] op = "read" -> Same(read(vm, instr.reg, instr.arg))
          [] op = "answer" -> [vm |-> answer(vm, instr.arg),
                               next_pc |-> chk_sub(next_pc, Usize(1)).v]

\* Vec::get(pc)
program_get(program, pc) ==
    IF IsSmall(pc) /\ ToNat(pc) < Len(program) THEN program[ToNat(pc) + 1]
    ELSE segfault

step(vm) ==
    LET Advance(done) ==
            IF done.vm.trap THEN done.vm
            ELSE [done.vm EXCEPT !.state.pc = done.next_pc]
    IN  Advance(execute(vm, program_get(vm.state.program, vm.state.pc)))

(***************************************************************************)
(* The callback of a run.  A sink is what the closure has captured: the    *)
(* SHA-1 hasher of the instrumented emulator; stream is a ghost field, the *)
(* snapshots the callback has been given (one per process_state).          *)
(***************************************************************************)
SHA1_MODULUS == 65536
SHA1_DIGEST_BYTES == 20

\* sha1 is an external crate: a 16-bit running checksum stands for its state
Sha1_new == 0

RECURSIVE Sha1_update(_, _)
\* h < SHA1_MODULUS at every call
Sha1_update(h, bytes) ==
    IF bytes = <<>> \/ h >= SHA1_MODULUS THEN h
    ELSE Sha1_update((h * 31 + Head(bytes) + 1) % SHA1_MODULUS, Tail(bytes))

\* the digest: the two checksum bytes first, then zeros
Sha1_finalize(h) ==
    [i \in 1..SHA1_DIGEST_BYTES |->
        IF i = 1 THEN h \div 256 ELSE IF i = 2 THEN h % 256 ELSE 0]

RECURSIVE Flatten(_)
Flatten(chunks) ==
    IF chunks = <<>> THEN <<>> ELSE Head(chunks) \o Flatten(Tail(chunks))

RECURSIVE FeedAll(_, _)
\* the callback called once per slice
FeedAll(h, chunks) ==
    IF chunks = <<>> \/ h >= SHA1_MODULUS THEN h
    ELSE FeedAll(Sha1_update(h, Head(chunks)), Tail(chunks))

update_hash(sink, chunks) ==
    [hasher |-> FeedAll(sink.hasher, chunks),
     stream |-> Append(sink.stream, Flatten(chunks))]

\* ghost: the VM as one iteration of the run loop leaves it (the program
\* and the label table never change)
Snapshot(vm) ==
    [running |-> vm.state.running, pc |-> vm.state.pc, flag |-> vm.state.flag,
     registers |-> vm.state.registers, tape1 |-> vm.state.tape1,
     tape2 |-> vm.state.tape2, memory |-> vm.state.memory,
     result |-> vm.result, trap |-> vm.trap]

RECURSIVE run_loop(_, _)
\* while self.state.running { self.step()?; self.state.process_state(..) }
\* st.fuel bounds the instructions of one run; hung: the bound was reached.
\* st.trace is a ghost field: the VM at the start of the loop and after
\* each step
run_loop(st, fuel) ==
    IF ~st.vm.state.running \/ st.vm.trap
    THEN [vm |-> st.vm, sink |-> st.sink, hung |-> FALSE, trace |-> st.trace]
    ELSE IF fuel = 0
    THEN [vm |-> st.vm, sink |-> st.sink, hung |-> TRUE, trace |-> st.trace]
    ELSE LET Stepped(vm2) ==
                 IF vm2.trap
                 THEN [vm |-> vm2, sink |-> st.sink, hung |-> FALSE,
                       trace |-> Append(st.trace, Snapshot(vm2))]
                 ELSE run_loop([vm |-> vm2,
                                sink |-> update_hash(st.sink, process_state(vm2.state)),
                                trace |-> Append(st.trace, Snapshot(vm2))],
                               fuel - 1)
         IN  Stepped(step(st.vm))

\* a run that hands the state to the callback before its first step: C25
\* must tell it from the run of the code
run_streams_the_start(vm, sink) ==
    run_loop([vm |-> start(vm),
              sink |-> update_hash(sink, process_state(start(vm).state)),
              trace |-> <<Snapshot(start(vm))>>],
             MaxSteps)

\* a run loop that goes on only while the callback has kept nothing: C35
\* must tell it from the run of the code, which never asks the callback
run_asks_the_callback(vm, sink) ==
    run_loop([vm |-> start(vm), sink |-> sink, trace |-> <<Snapshot(start(vm))>>],
             IF sink.hasher = Sha1_new THEN MaxSteps ELSE 1)

\* TinyVM::run: Ok(self.result) once the loop has ended
run(vm, sink) ==
    run_loop([vm |-> start(vm), sink |-> sink, trace |-> <<Snapshot(start(vm))>>],
             MaxSteps)

\* TinyVM::output: the word at memory[0..8]; ok is FALSE when the slice
\* is out of range (the method panics)
output(vm) ==
    IF Len(vm.state.memory) < USIZE_BYTES THEN [ok |-> FALSE, value |-> USIZE_ZERO]
    ELSE [ok |-> TRUE, value |-> from_le_bytes(SubSeq(vm.state.memory, 1, USIZE_BYTES))]

\* kind: "Ok" (value: the output), "Err" (value: the error code), "panic",
\* or "hang" (the call has not returned within MaxSteps instructions)
run_vm_with_callback(vm, input, sink) ==
    LET Ended(r) ==
            LET out == output(r.vm)
            IN  IF r.vm.trap
                THEN [kind |-> "panic", value |-> USIZE_ZERO, vm |-> r.vm, sink |-> r.sink, trace |-> r.trace]
                ELSE IF r.hung
                THEN [kind |-> "hang", value |-> USIZE_ZERO, vm |-> r.vm, sink |-> r.sink, trace |-> r.trace]
                ELSE IF r.vm.result = USIZE_ZERO
                     THEN IF out.ok
                          THEN [kind |-> "Ok", value |-> out.value, vm |-> r.vm,
                                sink |-> r.sink, trace |-> r.trace]
                          ELSE [kind |-> "panic", value |-> USIZE_ZERO,
                                vm |-> Panic(r.vm), sink |-> r.sink, trace |-> r.trace]
                     ELSE [kind |-> "Err", value |-> r.vm.result, vm |-> r.vm,
                           sink |-> r.sink, trace |-> r.trace]
    IN  Ended(run(load_tapes(vm, input), sink))

\* TinyVM::run_vm: the callback does nothing, the stream is dropped
run_vm(vm, input) ==
    run_vm_with_callback(vm, input, [hasher |-> Sha1_new, stream |-> <<>>])

reset_state(vm) == [vm EXCEPT !.state = State_reset(vm.state)]

(***************************************************************************)
(* tinyvm/src/parser.rs: a program file is its header and its lines, a     *)
(* line being an instruction or a label                                    *)
(***************************************************************************)
LabelLine(ident) == [label |-> ident]
IsLabelLine(line) == "label" \in DOMAIN line

\* version is in tenths (10 is 1.0)
ProgramFile(version, word_size, registers, lines) ==
    [readable |-> TRUE, version |-> version, word_size |-> word_size,
     registers |-> registers, lines |-> lines]

NoFile == [readable |-> FALSE]

check_params(params) == params.version = 10 /\ params.word_size < USIZE_BITS

RECURSIVE parse_lines(_, _, _)
\* the instructions, and the labels with the address each one is given
parse_lines(lines, instructions, labels) ==
    IF lines = <<>> THEN [instructions |-> instructions, labels |-> labels]
    ELSE IF IsLabelLine(Head(lines))
         THEN parse_lines(Tail(lines), instructions,
                Append(labels, [ident |-> Head(lines).label,
                                address |-> Len(instructions)]))
         ELSE parse_lines(Tail(lines), Append(instructions, Head(lines)), labels)

\* no label is defined twice
check_and_resolve_labels(labels) ==
    [ok |-> \A i, j \in 1..Len(labels) : labels[i].ident = labels[j].ident => i = j,
     map |-> [id \in {labels[i].ident : i \in 1..Len(labels)} |->
                Usize(labels[CHOOSE i \in 1..Len(labels) : labels[i].ident = id].address)]]

\* a check that lets every label reference through: C27 must tell it from
\* the check of the code
check_instructions_any_label(params, instructions, resolved_labels) ==
    \A i \in 1..Len(instructions) :
        LET instr == instructions[i]
            check_reg(reg) == reg.index < params.registers
            check_arg(arg) == arg.kind = "Reg" => check_reg(arg.reg)
        IN  CASE instr.op \in Ops1 -> check_arg(instr.arg)
              [] instr.op \in Ops2 -> check_reg(instr.reg) /\ check_arg(instr.arg)
              [] instr.op \in Ops3 ->
                    check_reg(instr.reg1) /\ check_reg(instr.reg2) /\ check_arg(instr.arg)

check_instructions(params, instructions, resolved_labels) ==
    LET check_reg(reg) == reg.index < params.registers
        check_arg(arg) ==
            CASE arg.kind = "Reg" -> check_reg(arg.reg)
              [] arg.kind = "Label" -> arg.ident \in DOMAIN resolved_labels
              [] arg.kind = "Imm" -> TRUE
    IN  \A i \in 1..Len(instructions) :
            LET instr == instructions[i]
            IN  CASE instr.op \in Ops1 -> check_arg(instr.arg)
                  [] instr.op \in Ops2 -> check_reg(instr.reg) /\ check_arg(instr.arg)
                  [] instr.op \in Ops3 ->
                        check_reg(instr.reg1) /\ check_reg(instr.reg2) /\ check_arg(instr.arg)

\* ok: Ok(TinyVM), otherwise Err
load_program(file) ==
    IF ~file.readable THEN [ok |-> FALSE]
    ELSE LET params == [version |-> file.version, word_size |-> file.word_size,
                        registers |-> file.registers]
             parsed == parse_lines(file.lines, <<>>, <<>>)
             resolved == check_and_resolve_labels(parsed.labels)
         IN  IF ~check_params(params) THEN [ok |-> FALSE]
             ELSE IF ~resolved.ok THEN [ok |-> FALSE]
             ELSE IF ~check_instructions(params, parsed.instructions, resolved.map)
                  THEN [ok |-> FALSE]
             ELSE [ok |-> TRUE,
                   vm |-> TinyVM_new(params, parsed.instructions, resolved.map)]

(***************************************************************************)
(* The program files of the model                                          *)
(***************************************************************************)
\* always stores 0 at address 0: every input is a valid run with output 0
ZeroTr ==
    ProgramFile(10, 16, 2,
        << I2("read", 0, Imm(0)),
           I2("store.w", 1, Imm(0)),
           I1("answer", Imm(0)) >>)

\* the output is the parity of the input; input 2 ends with answer 3
GuardTr ==
    ProgramFile(10, 16, 2,
        << I2("read", 0, Imm(0)),
           I2("cmpe", 0, Imm(2)),
           I1("cjmp", Label("_bad")),
           I3("and", 1, 0, Imm(1)),
           I2("store.w", 1, Imm(0)),
           I1("answer", Imm(0)),
           LabelLine("_bad"),
           I1("answer", Imm(3)) >>)

\* register r2 does not exist with K=2: load_program refuses the file
BrokenTr ==
    ProgramFile(10, 16, 2,
        << I2("read", 2, Imm(0)), I1("answer", Imm(0)) >>)

\* counts the input down to 0 and stores twice the input
CountTr ==
    ProgramFile(10, 16, 2,
        << I2("read", 0, Imm(0)),
           LabelLine("_loop"),
           I2("cmpe", 0, Imm(0)),
           I1("cjmp", Label("_end")),
           I3("sub", 0, 0, Imm(1)),
           I3("add", 1, 1, Imm(2)),
           I1("jmp", Label("_loop")),
           LabelLine("_end"),
           I2("store.w", 1, Imm(0)),
           I1("answer", Imm(0)) >>)

\* accepts without having stored an output word
NoStoreTr ==
    ProgramFile(10, 16, 2,
        << I2("read", 0, Imm(0)), I1("answer", Imm(0)) >>)

\* jumps to the address -1, that is usize::MAX
WildTr ==
    ProgramFile(10, 16, 2,
        << I1("jmp", Imm(-1)) >>)

\* input 0 jumps to the label after the last instruction, any other input
\* complements a register and falls off the end
FallTr ==
    ProgramFile(10, 16, 2,
        << I2("read", 0, Imm(0)),
           I2("cmpe", 0, Imm(0)),
           I1("cjmp", Label("_end")),
           I2("not", 1, Imm(0)),
           LabelLine("_end") >>)

\* reads the primary tape twice and the secondary tape once; the output is
\* the first word read
TapesTr ==
    ProgramFile(10, 16, 2,
        << I2("read", 0, Imm(0)),
           I2("store.w", 0, Imm(0)),
           I2("read", 0, Imm(0)),
           I2("read", 1, Imm(1)),
           I1("answer", Imm(0)) >>)

\* input 1 falls through cnjmp and jumps through a register, any other input
\* jumps at cnjmp and falls through cjmp; the answer is the input
JumpsTr ==
    ProgramFile(10, 16, 2,
        << I2("read", 0, Imm(0)),
           I2("cmpe", 0, Imm(1)),
           I1("cnjmp", Label("_skip")),
           I2("mov", 1, Imm(6)),
           I1("jmp", Reg(1)),
           LabelLine("_skip"),
           I1("cjmp", Imm(0)),
           I2("store.w", 1, Imm(0)),
           I2("store.b", 0, Imm(9)),
           I1("answer", Reg(0)) >>)

\* a machine of 4-bit words: stores a word at 2, a byte at the address read
\* from the tape, a byte past the end and a word at 0
StoresTr ==
    ProgramFile(10, 4, 2,
        << I2("read", 0, Imm(0)),
           I2("mov", 1, Imm(31)),
           I2("store.w", 1, Imm(2)),
           I2("store.b", 1, Reg(0)),
           I2("store.b", 0, Imm(11)),
           I2("store.w", 0, Imm(0)),
           I1("answer", Imm(0)) >>)

\* the programs a proof may name (FaultFiles: in a forged proof only), and
\* the ones the emulator is run on
Files == {"zero.tr", "guard.tr", "broken.tr"}
FaultFiles == {"wild.tr"}
EmuFiles ==
    Files \cup FaultFiles
    \cup {"count.tr", "nostore.tr", "fall.tr", "tapes.tr", "jumps.tr", "stores.tr"}

FileSystem(name) ==
    CASE name = "zero.tr" -> ZeroTr
      [] name = "guard.tr" -> GuardTr
      [] name = "broken.tr" -> BrokenTr
      [] name = "count.tr" -> CountTr
      [] name = "nostore.tr" -> NoStoreTr
      [] name = "wild.tr" -> WildTr
      [] name = "fall.tr" -> FallTr
      [] name = "tapes.tr" -> TapesTr
      [] name = "jumps.tr" -> JumpsTr
      [] name = "stores.tr" -> StoresTr
      [] OTHER -> NoFile

(***************************************************************************)
(* ckc/src/vm.rs: InstrumentedVM                                           *)
(***************************************************************************)
OpCodes == <<"and", "or", "xor", "not", "add", "sub", "mull", "umulh", "smulh",
             "udiv", "umod", "shl", "shr", "cmpe", "cmpa", "cmpae", "cmpg",
             "cmpge", "mov", "cmov", "jmp", "cjmp", "cnjmp", "store.b",
             "store.w", "load.b", "load.w", "read", "answer">>
LabelNames == <<"_bad", "_end", "_loop", "_skip">>

IndexOf(seq, x) == CHOOSE i \in 1..Len(seq) : seq[i] = x

\* serde_json::to_string(&vm.instructions()): serde_json is an external
\* crate; the string is kept as one byte per opcode and operand
json_arg(arg) ==
    CASE arg.kind = "Imm" -> <<1, arg.x % 256>>
      [] arg.kind = "Reg" -> <<2, arg.reg.index>>
      [] arg.kind = "Label" -> <<3, IndexOf(LabelNames, arg.ident)>>

json_instruction(instr) ==
    <<IndexOf(OpCodes, instr.op)>>
    \o (IF instr.op \in Ops3 THEN <<instr.reg1.index, instr.reg2.index>>
        ELSE IF instr.op \in Ops2 THEN <<instr.reg.index>> ELSE <<>>)
    \o json_arg(instr.arg)

RECURSIVE to_string(_)
to_string(instructions) ==
    IF instructions = <<>> THEN <<>>
    ELSE json_instruction(Head(instructions)) \o to_string(Tail(instructions))

instructions(vm) == vm.state.program

InstrumentedVM_new(filename) ==
    LET Loaded(loaded) ==
            IF ~loaded.ok THEN [ok |-> FALSE]
            ELSE [ok |-> TRUE,
                  ivm |-> [vm |-> loaded.vm,
                           program |-> to_string(instructions(loaded.vm))]]
    IN  Loaded(load_program(FileSystem(filename)))

\* kind "Ok": res is the RunResult and the VM has been reset; kind "Err":
\* the error of run_vm_with_callback is returned by `?` before the reset
InstrumentedVM_run(ivm, input) ==
    LET hasher == Sha1_update(Sha1_new, ivm.program)
        Ran(ran) ==
            LET hash == Sha1_finalize(ran.sink.hasher)
            IN  IF ran.kind = "Ok"
                THEN [kind |-> "Ok",
                      res |-> [hash |-> hash, input |-> input, output |-> ran.value],
                      stream |-> ran.sink.stream, trace |-> ran.trace,
                      ivm |-> [ivm EXCEPT !.vm = reset_state(ran.vm)]]
                ELSE [kind |-> ran.kind,
                      res |-> [hash |-> hash, input |-> input, output |-> ran.value],
                      stream |-> ran.sink.stream, trace |-> ran.trace,
                      ivm |-> [ivm EXCEPT !.vm = ran.vm]]
    IN  Ran(run_vm_with_callback(ivm.vm, <<<<Usize(input)>>, <<>>>>,
                                 [hasher |-> hasher, stream |-> <<>>]))

HASH_BITS == 160

\* the bits of a byte taken least significant first (Lsb0): C21 must tell
\* this order from the one of the code
view_bit_lsb0(hash, k) == (hash[(k \div 8) + 1] \div Pow2(k % 8)) % 2

\* hash.view_bits::<Msb0>(): bit k (from 0) of the digest, most significant
\* bit of byte 0 first
view_bit(hash, k) == (hash[(k \div 8) + 1] \div Pow2(7 - (k % 8))) % 2

\* the number of leading bits validate_hash looks at: 160 - kappa on usize
\* overflows for kappa > 160; .take() stops at the end of the digest
bits_taken(kappa) ==
    IF kappa <= HASH_BITS THEN [n |-> HASH_BITS - kappa, ovf |-> FALSE]
    ELSE [n |-> HASH_BITS, ovf |-> TRUE]

\* ok is FALSE when the subtraction panics
validate_hash(hash, kappa) ==
    [ok |-> ~(bits_taken(kappa).ovf /\ overflow_checks),
     value |-> \A k \in 0..(bits_taken(kappa).n - 1) :
                    k < 8 * Len(hash) => view_bit(hash, k) = 0]

None == [some |-> FALSE]
Some(x) == [some |-> TRUE, value |-> x]

Inputs == 0..MaxInput

(***************************************************************************)
(* The emulator driven directly: emu is one instance (an InstrumentedVM    *)
(* whose TinyVM can also be run and reset on its own), emu_log the last    *)
(* run that returned (last: a run of one input word, last_tapes: the run   *)
(* of from_cli on a tape file) and the number of runs made.  clean: the    *)
(* instance is fresh or has been reset since its last run; used: it has    *)
(* run before.                                                             *)
(***************************************************************************)
EmuInit ==
    /\ emu = [status |-> "none", file |-> "", ivm |-> <<>>, clean |-> TRUE,
              used |-> FALSE, prev_input |-> None]
    /\ emu_log = [runs |-> 0, last |-> None, last_tapes |-> None]

EmuAfter(ran_kind) ==
    CASE ran_kind = "panic" -> "panicked"
      [] ran_kind = "hang" -> "hung"
      [] OTHER -> "ready"

\* InstrumentedVM::new on a program file (the first one, or once more the
\* same file for a fresh instance)
EmuNew(f) ==
    /\ emu.status \in {"none", "ready"}
    /\ emu.status = "ready" => f = emu.file
    /\ \E made \in {InstrumentedVM_new(f)} :
           emu' = IF made.ok
                  THEN [status |-> "ready", file |-> f, ivm |-> made.ivm,
                        clean |-> TRUE, used |-> FALSE, prev_input |-> emu.prev_input]
                  ELSE [emu EXCEPT !.status = "invalid", !.file = f]
    /\ UNCHANGED <<overflow_checks, emu_log, prover, proof, verifier, gsl_eta, gsl_q, call>>

\* InstrumentedVM::run(input)
EmuRun(i) ==
    /\ emu.status = "ready"
    /\ emu_log.runs < MaxRuns
    /\ \E r \in {InstrumentedVM_run(emu.ivm, i)} :
           /\ emu' = [emu EXCEPT !.status = EmuAfter(r.kind), !.ivm = r.ivm,
                                 !.clean = (r.kind = "Ok"), !.used = TRUE,
                                 !.prev_input = Some(i)]
           /\ emu_log' = [emu_log EXCEPT
                             !.runs = emu_log.runs + 1,
                             !.last = Some([input |-> i, clean |-> emu.clean,
                                            used |-> emu.used,
                                            prev_input |-> emu.prev_input,
                                            kind |-> r.kind, res |-> r.res,
                                            stream |-> r.stream, trace |-> r.trace])]
    /\ UNCHANGED <<overflow_checks, prover, proof, verifier, gsl_eta, gsl_q, call>>

\* TinyVM::run_vm_with_callback((vec![input], vec![]), update_hash) with the
\* hasher of InstrumentedVM::run, and no reset after it
EmuRunVm(i) ==
    /\ emu.status = "ready"
    /\ emu_log.runs < MaxRuns
    /\ \E ran \in {run_vm_with_callback(emu.ivm.vm, <<<<Usize(i)>>, <<>>>>,
                     [hasher |-> Sha1_update(Sha1_new, emu.ivm.program),
                      stream |-> <<>>])} :
           /\ emu' = [emu EXCEPT !.status = EmuAfter(ran.kind), !.ivm.vm = ran.vm,
                                 !.clean = FALSE, !.used = TRUE,
                                 !.prev_input = Some(i)]
           /\ emu_log' = [emu_log EXCEPT
                             !.runs = emu_log.runs + 1,
                             !.last = Some([input |-> i, clean |-> emu.clean,
                                            used |-> emu.used,
                                            prev_input |-> emu.prev_input,
                                            kind |-> ran.kind,
                                            res |-> [hash |-> Sha1_finalize(ran.sink.hasher),
                                                     input |-> i, output |-> ran.value],
                                            stream |-> ran.sink.stream,
                                            trace |-> ran.trace])]
    /\ UNCHANGED <<overflow_checks, prover, proof, verifier, gsl_eta, gsl_q, call>>

\* the tape files: at most two words, the first one the smaller
TapeFiles ==
    {<<>>} \cup {<<Usize(a)>> : a \in Inputs}
           \cup {<<Usize(ab[1]), Usize(ab[2])>> :
                    ab \in {cd \in Inputs \X Inputs : cd[1] < cd[2]}}

\* tinyvm::from_cli: the program file is loaded, the VM is run once by
\* run_vm((tape, vec![])) on the words of the tape file, and the process
\* ends
from_cli(program_file, tape) ==
    /\ emu.status = "none"
    /\ \E loaded \in {load_program(FileSystem(program_file))} :
           IF ~loaded.ok
           THEN /\ emu' = [emu EXCEPT !.status = "invalid", !.file = program_file]
                /\ UNCHANGED emu_log
           ELSE \E ran \in {run_vm(loaded.vm, <<tape, <<>>>>)} :
                    /\ emu' = [emu EXCEPT !.status = "exited", !.file = program_file]
                    /\ emu_log' = [emu_log EXCEPT
                                      !.runs = emu_log.runs + 1,
                                      !.last_tapes = Some([tapes |-> <<tape, <<>>>>,
                                                           kind |-> ran.kind,
                                                           output |-> ran.value,
                                                           trace |-> ran.trace])]
    /\ UNCHANGED <<overflow_checks, prover, proof, verifier, gsl_eta, gsl_q, call>>

\* TinyVM::reset_state
EmuReset ==
    /\ emu.status = "ready"
    /\ emu' = [emu EXCEPT !.ivm.vm = reset_state(emu.ivm.vm), !.clean = TRUE]
    /\ UNCHANGED <<overflow_checks, emu_log, prover, proof, verifier, gsl_eta, gsl_q, call>>

(***************************************************************************)
(* f64: NaN, or a number counted in quarters (the values the model needs   *)
(* are 0, 1/4, 1/2, 3/4 and 1)                                             *)
(***************************************************************************)
NaN == [nan |-> TRUE, num |-> 0]
F64(quarters) == [nan |-> FALSE, num |-> quarters]
is_nan(x) == x.nan
f64_gt(a, b) == ~a.nan /\ ~b.nan /\ a.num > b.num
f64_sub(a, b) == IF a.nan \/ b.nan THEN NaN ELSE F64(a.num - b.num)

(***************************************************************************)
(* ckc/src/stats.rs.  The floating-point value of a formula is what GSL    *)
(* and libm make of it: gsl_eta and gsl_q hold, per argument triple, the   *)
(* value the build at hand computes (the same on every call).              *)
(***************************************************************************)
EtaValues == {NaN, F64(2)}
QValues == {NaN, F64(4)}

Known(table, key) == key \in DOMAIN table

\* a library whose value changes from one call to the next: C12 must tell
\* it from the functions of the code
Lookup_forgets(table, key, fresh) == fresh

Memo(table, key, value) == IF Known(table, key) THEN table ELSE (key :> value) @@ table
Lookup(table, key, fresh) == IF Known(table, key) THEN table[key] ELSE fresh

\* only floating-point arithmetic, and erfc(..).unwrap() on a call that
\* always reports success
compute_eta(table, kappa, u, v) == table[<<kappa, u, v>>]

\* (u - r), u - 1 and r - 1 are usize subtractions; hyper_2f1(..).unwrap()
\* is a call that reports success for kappa < 160 and r <= u
compute_q(table, kappa, u, r) ==
    IF overflow_checks /\ (r > u \/ u < 1 \/ r < 1)
    THEN [panic |-> TRUE, val |-> NaN]
    ELSE [panic |-> FALSE, val |-> table[<<kappa, u, r>>]]

\* the f64 formula cast to usize (NaN and negative values become 0)
DeltaValues == 0..1

\* compute_v_min is imported by prover.rs and is not in stats.rs
VMinValues == 0..1

(***************************************************************************)
(* ckc/src/proof.rs, ckc/src/prover.rs                                     *)
(***************************************************************************)
Range(lo, hi) == [start |-> lo, end |-> hi]
Range_contains(r, i) == r.start <= i /\ i < r.end
Range_iter(r) == [k \in 1..(r.end - r.start) |-> r.start + k - 1]

FixedEffort == [kind |-> "FixedEffort"]
BestEffort == [kind |-> "BestEffort"]
BestEffortAdaptive(eta0) == [kind |-> "BestEffortAdaptive", eta0 |-> eta0]
OverTesting(eta0) == [kind |-> "OverTesting", eta0 |-> eta0]

ProofParams_new(filename, input_domain, expected, kappa, v, strategy) ==
    [program_file |-> filename, input_domain |-> input_domain,
     expected_output |-> expected, kappa |-> kappa, v |-> v, strategy |-> strategy]

Proof(vset, extended_domain, params) ==
    [vset |-> vset, extended_domain |-> extended_domain, params |-> params]

\* assert!(params.kappa < 160)
Prover_new(params) == [ok |-> params.kappa < HASH_BITS, params |-> params]

\* a selection that does not look at the hash: C2 must tell it from the
\* selection of the code
select_witness_any_hash(params, run_result) ==
    IF run_result.output # Usize(params.expected_output) THEN FALSE
    ELSE Range_contains(params.input_domain, run_result.input)

\* a selection that does not look at the declared domain: C36 must tell it
\* from the selection of the code
select_witness_any_input(params, run_result) ==
    IF run_result.output # Usize(params.expected_output) THEN FALSE
    ELSE validate_hash(run_result.hash, params.kappa).value

select_witness(params, run_result) ==
    IF run_result.output # Usize(params.expected_output) THEN FALSE
    ELSE IF ~Range_contains(params.input_domain, run_result.input) THEN FALSE
    ELSE validate_hash(run_result.hash, params.kappa).value

RECURSIVE witness_loop_skips(_, _, _, _, _)
\* a loop that goes on to the next input when a run does not complete: C39
\* must tell it from the loop of the code
witness_loop_skips(params, inputs, k, limit, acc) ==
    IF k > Len(inputs) \/ acc.status # "Ok" THEN acc
    ELSE LET executed == Append(acc.executed, inputs[k])
             Ran(r) ==
                 IF r.kind = "hang"
                 THEN [status |-> "hang", ivm |-> r.ivm, vset |-> acc.vset,
                       executed |-> executed]
                 ELSE LET vset == IF r.kind = "Ok" /\ select_witness(params, r.res)
                                  THEN Append(acc.vset, inputs[k]) ELSE acc.vset
                      IN  IF limit.some /\ Len(vset) > limit.value
                          THEN [status |-> "Ok", ivm |-> r.ivm, vset |-> vset,
                                executed |-> executed]
                          ELSE witness_loop_skips(params, inputs, k + 1, limit,
                                 [status |-> "Ok", ivm |-> r.ivm, vset |-> vset,
                                  executed |-> executed])
         IN  Ran(InstrumentedVM_run(acc.ivm, inputs[k]))

RECURSIVE witness_loop(_, _, _, _, _)
\* for i in domain { let run_result = vm.run(i).unwrap(); if
\* select_witness(run_result) { vset.push(i) }; if vset.len() > threshold
\* { break } }; the last two lines are the adaptive loop's (limit.some).
\* acc.executed is a ghost field: the inputs handed to vm.run
witness_loop(params, inputs, k, limit, acc) ==
    IF k > Len(inputs) \/ acc.status # "Ok" THEN acc
    ELSE LET executed == Append(acc.executed, inputs[k])
             Ran(r) ==
                 IF r.kind # "Ok"
                 THEN [status |-> IF r.kind = "hang" THEN "hang" ELSE "panic",
                       ivm |-> r.ivm, vset |-> acc.vset, executed |-> executed]
                 ELSE LET vset == IF select_witness(params, r.res)
                                  THEN Append(acc.vset, inputs[k]) ELSE acc.vset
                      IN  IF limit.some /\ Len(vset) > limit.value
                          THEN [status |-> "Ok", ivm |-> r.ivm, vset |-> vset,
                                executed |-> executed]
                          ELSE witness_loop(params, inputs, k + 1, limit,
                                 [status |-> "Ok", ivm |-> r.ivm, vset |-> vset,
                                  executed |-> executed])
         IN  Ran(InstrumentedVM_run(acc.ivm, inputs[k]))

\* kind "Ok": the proof is returned; "Err": InstrumentedVM::new failed;
\* "panic", "hang": the call does not return
collect(params, domain, limit, extended_domain) ==
    LET Done(done) ==
            IF done.status # "Ok" THEN [kind |-> done.status, executed |-> done.executed]
            ELSE [kind |-> "Ok", executed |-> done.executed,
                  proof |-> Proof(done.vset, extended_domain, params)]
        Made(made) ==
            IF ~made.ok THEN [kind |-> "Err", executed |-> <<>>]
            ELSE Done(witness_loop(params, Range_iter(domain), 1, limit,
                        [status |-> "Ok", ivm |-> made.ivm, vset |-> <<>>,
                         executed |-> <<>>]))
    IN  Made(InstrumentedVM_new(params.program_file))

\* a best effort that stops at its first witness: C3 must tell it from the
\* best effort of the code
obtain_proof_best_effort_first_only(params) ==
    collect(params, params.input_domain, Some(0), None)

obtain_proof_best_effort(params) ==
    collect(params, params.input_domain, None, None)

\* a fixed effort that stops once it has more than v witnesses: C24 must
\* tell it from the fixed effort of the code
obtain_proof_fixed_effort_stops_at_v(params) ==
    collect(params, params.input_domain, Some(params.v), None)

obtain_proof_fixed_effort(params) == obtain_proof_best_effort(params)

\* an adaptive best effort that never breaks: C22 must tell it from the
\* loop of the code
obtain_proof_bea_never_stops(params, threshold) ==
    collect(params, params.input_domain, None, None)

\* threshold: the value of compute_v_min(eta0, kappa, u)
obtain_proof_bea(params, threshold) ==
    collect(params, params.input_domain, Some(threshold), None)

\* an overtesting that records the range but runs the declared domain only:
\* C23 must tell it from the strategy of the code
obtain_proof_overtesting_declared_only(params, delta) ==
    collect(params, params.input_domain, None,
            Some(Range(params.input_domain.start, params.input_domain.end + delta)))

\* delta: the value of compute_delta_u(eta0, kappa, end - start, v)
obtain_proof_overtesting(params, delta) ==
    LET extended_domain ==
            Range(params.input_domain.start, params.input_domain.end + delta)
    IN  collect(params, extended_domain, None, Some(extended_domain))

obtain_proof(params, delta, threshold) ==
    CASE params.strategy.kind = "BestEffort" -> obtain_proof_best_effort(params)
      [] params.strategy.kind = "FixedEffort" -> obtain_proof_fixed_effort(params)
      [] params.strategy.kind = "OverTesting" -> obtain_proof_overtesting(params, delta)
      [] params.strategy.kind = "BestEffortAdaptive" -> obtain_proof_bea(params, threshold)

(***************************************************************************)
(* ckc/src/verifier.rs                                                     *)
(***************************************************************************)
Verdict(kind, arg) == [kind |-> kind, arg |-> arg]
Valid == Verdict("Valid", 0)
ValidButTooFewHashes(n) == Verdict("ValidButTooFewHashes", n)
IncorrectHash == Verdict("IncorrectHash", 0)
\* a failed load that counts as a valid proof: C13 must tell it from the
\* verdict of the code
InvalidProgram_accepted == Verdict("Valid", 0)
InvalidProgram == Verdict("InvalidProgram", 0)
IncorrectInput(i) == Verdict("IncorrectInput", i)
IncorrectOutput(o) == Verdict("IncorrectOutput", o)
ExecutionError == Verdict("ExecutionError", 0)

\* ghost: what was done with one witness; steps are the checks applied to
\* it in the order they were applied, run is what vm.run returned
Examined(i, steps, seen) == [input |-> i, steps |-> steps, run |-> seen]
NotRun == [kind |-> "none"]
RunSeen(r) == [kind |-> r.kind, output |-> r.res.output, hash |-> r.res.hash]

RECURSIVE validate_loop(_, _, _, _)
\* for &i in proof.vset.as_slice() { .. }; acc.verdict is set by a return
validate_loop(pf, domain, k, acc) ==
    IF k > Len(pf.vset) \/ acc.status # "Ok" \/ acc.verdict.some THEN acc
    ELSE LET i == pf.vset[k]
             Return(verdict, steps, seen, ivm) ==
                 [status |-> "Ok", verdict |-> Some(verdict), ivm |-> ivm,
                  examined |-> Append(acc.examined, Examined(i, steps, seen))]
             Ran(r) ==
                 LET h == validate_hash(r.res.hash, pf.params.kappa)
                     Stop(status, steps) ==
                         [status |-> status, verdict |-> None, ivm |-> r.ivm,
                          examined |-> Append(acc.examined,
                                              Examined(i, steps, RunSeen(r)))]
                 IN  IF r.kind = "panic" THEN Stop("panic", <<"domain", "execution">>)
                     ELSE IF r.kind = "hang" THEN Stop("hang", <<"domain", "execution">>)
                     ELSE IF r.kind = "Err"
                          THEN Return(ExecutionError, <<"domain", "execution">>,
                                      RunSeen(r), r.ivm)
                     ELSE IF r.res.output # Usize(pf.params.expected_output)
                          THEN Return(IncorrectOutput(r.res.output),
                                      <<"domain", "execution", "output">>,
                                      RunSeen(r), r.ivm)
                     ELSE IF ~h.ok
                          THEN Stop("panic", <<"domain", "execution", "output", "hash">>)
                     ELSE IF ~h.value
                          THEN Return(IncorrectHash,
                                      <<"domain", "execution", "output", "hash">>,
                                      RunSeen(r), r.ivm)
                     ELSE validate_loop(pf, domain, k + 1,
                             [status |-> "Ok", verdict |-> None, ivm |-> r.ivm,
                              examined |-> Append(acc.examined,
                                  Examined(i, <<"domain", "execution", "output", "hash">>,
                                           RunSeen(r)))])
         IN  IF ~Range_contains(domain, i)
             THEN Return(IncorrectInput(i), <<"domain">>, NotRun, acc.ivm)
             ELSE Ran(InstrumentedVM_run(acc.ivm, i))

\* a validation that takes the witnesses last to first: C5 must tell it
\* from the validation of the code
validate_vset_reversed(pf, domain) ==
    LET Done(done) ==
            IF done.status # "Ok"
            THEN [status |-> done.status, verdict |-> InvalidProgram,
                  examined |-> done.examined]
            ELSE IF done.verdict.some
                 THEN [status |-> "Ok", verdict |-> done.verdict.value,
                       examined |-> done.examined]
            ELSE [status |-> "Ok",
                  verdict |-> IF Len(pf.vset) >= pf.params.v THEN Valid
                              ELSE ValidButTooFewHashes(Len(pf.vset)),
                  examined |-> done.examined]
        Made(made) ==
            IF ~made.ok
            THEN [status |-> "Ok", verdict |-> InvalidProgram, examined |-> <<>>]
            ELSE Done(validate_loop([pf EXCEPT !.vset = Reverse(pf.vset)], domain, 1,
                        [status |-> "Ok", verdict |-> None, ivm |-> made.ivm,
                         examined |-> <<>>]))
    IN  Made(InstrumentedVM_new(pf.params.program_file))

\* a validation that wants more than params.v witnesses: C6 must tell it
\* from the validation of the code
validate_vset_more_than_v(pf, domain) ==
    LET Done(done) ==
            IF done.status # "Ok"
            THEN [status |-> done.status, verdict |-> InvalidProgram,
                  examined |-> done.examined]
            ELSE IF done.verdict.some
                 THEN [status |-> "Ok", verdict |-> done.verdict.value,
                       examined |-> done.examined]
            ELSE [status |-> "Ok",
                  verdict |-> IF Len(pf.vset) > pf.params.v THEN Valid
                              ELSE ValidButTooFewHashes(Len(pf.vset)),
                  examined |-> done.examined]
        Made(made) ==
            IF ~made.ok
            THEN [status |-> "Ok", verdict |-> InvalidProgram, examined |-> <<>>]
            ELSE Done(validate_loop(pf, domain, 1,
                        [status |-> "Ok", verdict |-> None, ivm |-> made.ivm,
                         examined |-> <<>>]))
    IN  Made(InstrumentedVM_new(pf.params.program_file))

\* a validation that counts each index once: C37 must tell it from the
\* validation of the code
validate_vset_distinct(pf, domain) ==
    LET enough_hashes ==
            Cardinality({pf.vset[k] : k \in 1..Len(pf.vset)}) >= pf.params.v
        Done(done) ==
            IF done.status # "Ok"
            THEN [status |-> done.status, verdict |-> InvalidProgram,
                  examined |-> done.examined]
            ELSE IF done.verdict.some
                 THEN [status |-> "Ok", verdict |-> done.verdict.value,
                       examined |-> done.examined]
            ELSE [status |-> "Ok",
                  verdict |-> IF enough_hashes THEN Valid
                              ELSE ValidButTooFewHashes(Len(pf.vset)),
                  examined |-> done.examined]
        Made(made) ==
            IF ~made.ok
            THEN [status |-> "Ok", verdict |-> InvalidProgram, examined |-> <<>>]
            ELSE Done(validate_loop(pf, domain, 1,
                        [status |-> "Ok", verdict |-> None, ivm |-> made.ivm,
                         examined |-> <<>>]))
    IN  Made(InstrumentedVM_new(pf.params.program_file))

\* status "Ok": verdict is the ValidationResult; "panic", "hang": the call
\* does not return
validate_vset(pf, domain) ==
    LET enough_hashes == Len(pf.vset) >= pf.params.v
        Done(done) ==
            IF done.status # "Ok"
            THEN [status |-> done.status, verdict |-> InvalidProgram,
                  examined |-> done.examined]
            ELSE IF done.verdict.some
                 THEN [status |-> "Ok", verdict |-> done.verdict.value,
                       examined |-> done.examined]
            ELSE [status |-> "Ok",
                  verdict |-> IF enough_hashes THEN Valid
                              ELSE ValidButTooFewHashes(Len(pf.vset)),
                  examined |-> done.examined]
        Made(made) ==
            IF ~made.ok
            THEN [status |-> "Ok", verdict |-> InvalidProgram, examined |-> <<>>]
            ELSE Done(validate_loop(pf, domain, 1,
                        [status |-> "Ok", verdict |-> None, ivm |-> made.ivm,
                         examined |-> <<>>]))
    IN  Made(InstrumentedVM_new(pf.params.program_file))

\* a report that carries the proof without its extended domain: C11 must
\* tell it from the report of the code
ProofReport_without_extension(pf, eta, q, valid) ==
    [proof |-> [pf EXCEPT !.extended_domain = None], eta |-> eta, q |-> q,
     valid |-> valid]

\* the proof is moved into the report
ProofReport(pf, eta, q, valid) == [proof |-> pf, eta |-> eta, q |-> q, valid |-> valid]

\* what a check_proof_* call comes to.  status "Ok": report is returned.
\* Ghost fields: v (the witness count handed to the statistics), called
\* (validate_vset was called), domain, verdict and examined (its argument
\* and what it did)
Checked(status, pf, eta, q, valid, v, vv) ==
    [status |-> IF status = "Ok" /\ vv.some THEN vv.value.status ELSE status,
     report |-> ProofReport(pf, eta, q, valid),
     v |-> v,
     called |-> vv.some,
     domain |-> IF vv.some THEN vv.value.domain ELSE None,
     verdict |-> IF vv.some /\ vv.value.status = "Ok" THEN Some(vv.value.verdict) ELSE None,
     examined |-> IF vv.some THEN vv.value.examined ELSE <<>>]

Called(domain, vv) ==
    Some([status |-> vv.status, verdict |-> vv.verdict, examined |-> vv.examined,
          domain |-> Some(domain)])

\* a fixed effort that hands |vset| to the statistics: C7 must tell it from
\* the fixed effort of the code
check_proof_fixed_effort_counts_vset(pf, epsilon, eta_table, q_table) ==
    LET u == pf.params.input_domain.end - pf.params.input_domain.start
        kappa == pf.params.kappa
        v == Len(pf.vset)
        eta == compute_eta(eta_table, kappa, u, v)
        q == compute_q(q_table, kappa, u, v)
        Validated_by(vv) ==
            Checked("Ok", pf, eta, q.val, vv.verdict.kind = "Valid", v,
                    Called(pf.params.input_domain, vv))
    IN  IF q.panic THEN Checked("panic", pf, eta, NaN, FALSE, v, None)
        ELSE IF ~(~is_nan(q.val) /\ ~is_nan(eta) /\ f64_gt(q.val, f64_sub(F64(4), epsilon)))
             THEN Checked("Ok", pf, eta, q.val, FALSE, v, None)
        ELSE Validated_by(validate_vset(pf, pf.params.input_domain))

check_proof_fixed_effort(pf, epsilon, eta_table, q_table) ==
    LET u == pf.params.input_domain.end - pf.params.input_domain.start
        kappa == pf.params.kappa
        v == pf.params.v
        eta == compute_eta(eta_table, kappa, u, v)
        q == compute_q(q_table, kappa, u, v)
        Validated_by(vv) ==
            Checked("Ok", pf, eta, q.val, vv.verdict.kind = "Valid", v,
                    Called(pf.params.input_domain, vv))
    IN  IF q.panic THEN Checked("panic", pf, eta, NaN, FALSE, v, None)
        ELSE IF ~(~is_nan(q.val) /\ ~is_nan(eta) /\ f64_gt(q.val, f64_sub(F64(4), epsilon)))
             THEN Checked("Ok", pf, eta, q.val, FALSE, v, None)
        ELSE Validated_by(validate_vset(pf, pf.params.input_domain))

\* a best effort check that accepts Valid only: C8 must tell it from the
\* best effort check of the code
check_proof_best_effort_strict(pf, eta_table, q_table) ==
    LET u == pf.params.input_domain.end - pf.params.input_domain.start
        kappa == pf.params.kappa
        v == Len(pf.vset)
        eta == compute_eta(eta_table, kappa, u, v)
        q == compute_q(q_table, kappa, u, v)
        Validated_by(vv) ==
            Checked("Ok", pf, eta, q.val,
                    vv.verdict.kind = "Valid" /\ ~is_nan(q.val) /\ ~is_nan(eta),
                    v, Called(pf.params.input_domain, vv))
    IN  IF q.panic THEN Checked("panic", pf, eta, NaN, FALSE, v, None)
        ELSE Validated_by(validate_vset(pf, pf.params.input_domain))

\* a best effort check that hands the declared params.v to the statistics,
\* as the fixed effort check does: C38 must tell it from the best effort
\* check of the code
check_proof_best_effort_declared_v(pf, eta_table, q_table) ==
    LET u == pf.params.input_domain.end - pf.params.input_domain.start
        kappa == pf.params.kappa
        v == pf.params.v
        eta == compute_eta(eta_table, kappa, u, v)
        q == compute_q(q_table, kappa, u, v)
        Validated_by(vv) ==
            Checked("Ok", pf, eta, q.val,
                    vv.verdict.kind \in {"Valid", "ValidButTooFewHashes"}
                       /\ ~is_nan(q.val) /\ ~is_nan(eta),
                    v, Called(pf.params.input_domain, vv))
    IN  IF q.panic THEN Checked("panic", pf, eta, NaN, FALSE, v, None)
        ELSE Validated_by(validate_vset(pf, pf.params.input_domain))

check_proof_best_effort(pf, eta_table, q_table) ==
    LET u == pf.params.input_domain.end - pf.params.input_domain.start
        kappa == pf.params.kappa
        v == Len(pf.vset)
        eta == compute_eta(eta_table, kappa, u, v)
        q == compute_q(q_table, kappa, u, v)
        Validated_by(vv) ==
            Checked("Ok", pf, eta, q.val,
                    vv.verdict.kind \in {"Valid", "ValidButTooFewHashes"}
                       /\ ~is_nan(q.val) /\ ~is_nan(eta),
                    v, Called(pf.params.input_domain, vv))
    IN  IF q.panic THEN Checked("panic", pf, eta, NaN, FALSE, v, None)
        ELSE Validated_by(validate_vset(pf, pf.params.input_domain))

\* an overtesting check over the declared domain: C9 must tell it from the
\* overtesting check of the code
check_proof_overtesting_declared(pf, eta_table, q_table) ==
    LET u == pf.params.input_domain.end - pf.params.input_domain.start
        kappa == pf.params.kappa
        v == Len(pf.vset)
        eta == compute_eta(eta_table, kappa, u, v)
        q == compute_q(q_table, kappa, u, v)
        Validated_by(vv) ==
            Checked("Ok", pf, eta, q.val, vv.verdict.kind = "Valid", v,
                    Called(pf.params.input_domain, vv))
    IN  IF q.panic THEN Checked("panic", pf, eta, NaN, FALSE, v, None)
        ELSE Validated_by(validate_vset(pf, pf.params.input_domain))

\* an overtesting check that only accepts an extended domain that starts
\* where the declared one does and contains it: C40 must tell it from the
\* overtesting check of the code
check_proof_overtesting_from_lo(pf, eta_table, q_table) ==
    LET u == pf.params.input_domain.end - pf.params.input_domain.start
        kappa == pf.params.kappa
        v == Len(pf.vset)
        eta == compute_eta(eta_table, kappa, u, v)
        q == compute_q(q_table, kappa, u, v)
        domain == IF pf.extended_domain.some THEN pf.extended_domain.value
                  ELSE pf.params.input_domain
        Validated_by(vv) ==
            Checked("Ok", pf, eta, q.val,
                    /\ vv.verdict.kind = "Valid"
                    /\ domain.start = pf.params.input_domain.start
                    /\ domain.end >= pf.params.input_domain.end,
                    v, Called(domain, vv))
    IN  IF q.panic THEN Checked("panic", pf, eta, NaN, FALSE, v, None)
        ELSE Validated_by(validate_vset(pf, domain))

check_proof_overtesting(pf, eta_table, q_table) ==
    LET u == pf.params.input_domain.end - pf.params.input_domain.start
        kappa == pf.params.kappa
        v == Len(pf.vset)
        eta == compute_eta(eta_table, kappa, u, v)
        q == compute_q(q_table, kappa, u, v)
        domain == IF pf.extended_domain.some THEN pf.extended_domain.value
                  ELSE pf.params.input_domain
        Validated_by(vv) ==
            Checked("Ok", pf, eta, q.val, vv.verdict.kind = "Valid", v,
                    Called(domain, vv))
    IN  IF q.panic THEN Checked("panic", pf, eta, NaN, FALSE, v, None)
        ELSE Validated_by(validate_vset(pf, domain))

check_proof(pf, epsilon, eta_table, q_table) ==
    CASE pf.params.strategy.kind = "FixedEffort" ->
            check_proof_fixed_effort(pf, epsilon, eta_table, q_table)
      [] pf.params.strategy.kind = "BestEffort" ->
            check_proof_best_effort(pf, eta_table, q_table)
      [] pf.params.strategy.kind = "BestEffortAdaptive" ->
            check_proof_best_effort(pf, eta_table, q_table)
      [] pf.params.strategy.kind = "OverTesting" ->
            check_proof_overtesting(pf, eta_table, q_table)

(***************************************************************************)
(* The protocol: one prover session, whose proof is handed to the          *)
(* verifier, or a verifier handed a proof nobody has vouched for           *)
(***************************************************************************)
MaxWitnesses == 2    \* witnesses a proof handed to the verifier may list

Domains == {Range(0, 2), Range(0, MaxInput + 1)}
ExpectedOutputs == {0, 1}
Kappas == {158, 159, 160}
Strategies == {FixedEffort, BestEffort, BestEffortAdaptive(F64(2)), OverTesting(F64(2))}
Epsilons == {F64(0), F64(1)}

\* the last ones name a program every run of which ends in a fault
ProverParams ==
    {ProofParams_new(f, d, o, k, v, s) :
        f \in Files, d \in Domains, o \in ExpectedOutputs, k \in Kappas,
        v \in 0..MaxWitnesses, s \in Strategies}
    \cup
    {ProofParams_new("fall.tr", Range(0, 2), 0, 159, MaxWitnesses, s) :
        s \in Strategies}

VSets == UNION {[1..n -> Inputs] : n \in 0..MaxWitnesses}

\* the proofs a verifier may be handed by anybody: any witness list, over
\* the domain [0, MaxInput), asking for no witness or for MaxWitnesses, with
\* an extended domain under OverTesting (the last ones with one that leaves
\* out the first input of the declared domain)
ForgedProofs ==
    {Proof(vs, ext, ProofParams_new(f, Range(0, MaxInput), 0, 159, v, s)) :
        vs \in VSets, ext \in {None},
        f \in Files, v \in {0, MaxWitnesses}, s \in Strategies}
    \cup
    {Proof(vs, ext, ProofParams_new(f, Range(0, MaxInput), 0, 159, v, OverTesting(F64(2)))) :
        vs \in VSets, ext \in {Some(Range(0, MaxInput + 1))},
        f \in Files, v \in {0, MaxWitnesses}}
    \cup
    {Proof(vs, ext, ProofParams_new(f, Range(0, MaxInput), 0, 159, 0, BestEffort)) :
        vs \in VSets, ext \in {None}, f \in FaultFiles}
    \cup
    {Proof(vs, ext, ProofParams_new(f, Range(0, MaxInput), 0, 159, 0, OverTesting(F64(2)))) :
        vs \in VSets, ext \in {Some(Range(1, MaxInput))}, f \in {"zero.tr"}}

CkcInit ==
    /\ prover = [status |-> "none"]
    /\ proof = None
    /\ verifier = [status |-> "idle"]
    /\ gsl_eta = <<>>
    /\ gsl_q = <<>>

Init ==
    /\ overflow_checks \in BOOLEAN
    /\ EmuInit
    /\ CkcInit
    /\ call = [fn |-> "none"]

\* Prover::new(params)
ProverNew(params) ==
    /\ prover.status = "none"
    /\ verifier.status = "idle"
    /\ prover' = [status |-> IF Prover_new(params).ok THEN "ready" ELSE "panicked",
                  params |-> params]
    /\ UNCHANGED <<overflow_checks, emu, emu_log, proof, verifier, gsl_eta, gsl_q, call>>

ProverAfter(kind) ==
    CASE kind = "Ok" -> "returned"
      [] kind = "Err" -> "failed"
      [] kind = "panic" -> "panicked"
      [] kind = "hang" -> "hung"

\* Prover::obtain_proof(self); delta and threshold are what compute_delta_u
\* and compute_v_min return to the strategies that call them
ObtainProof ==
    /\ prover.status = "ready"
    /\ \E delta \in IF prover.params.strategy.kind = "OverTesting"
                    THEN DeltaValues ELSE {0},
          threshold \in IF prover.params.strategy.kind = "BestEffortAdaptive"
                        THEN VMinValues ELSE {0} :
          \E out \in {obtain_proof(prover.params, delta, threshold)} :
              /\ prover' = [status |-> ProverAfter(out.kind),
                            params |-> prover.params,
                            executed |-> out.executed,
                            delta |-> delta, threshold |-> threshold]
              /\ proof' = IF out.kind = "Ok" THEN Some(out.proof) ELSE None
    /\ UNCHANGED <<overflow_checks, emu, emu_log, verifier, gsl_eta, gsl_q, call>>

\* the proofs an idle verifier can be handed
ProofsAtHand ==
    IF verifier.status # "idle" THEN {}
    ELSE IF prover.status = "returned" THEN {proof.value}
    ELSE IF prover.status = "none" THEN ForgedProofs
    ELSE {}

\* check_proof hands epsilon to check_proof_fixed_effort only
EpsilonsFor(pf) ==
    IF pf.params.strategy.kind = "FixedEffort" THEN Epsilons ELSE {F64(1)}

VerifierAfter(status) ==
    CASE status = "Ok" -> "reported"
      [] status = "panic" -> "panicked"
      [] status = "hang" -> "hung"

\* the argument triples check_proof may hand to the statistics
StatsKeys(pf) ==
    LET u == pf.params.input_domain.end - pf.params.input_domain.start
    IN  {<<pf.params.kappa, u, pf.params.v>>, <<pf.params.kappa, u, Len(pf.vset)>>}

\* Verifier::check_proof(proof, epsilon); eta and q are what GSL makes of
\* the arguments it has not been called on before (compute_q does not get
\* to call it when one of its subtractions panics)
CheckProof(pf, epsilon) ==
    /\ verifier.status = "idle"
    /\ prover.status \in {"none", "returned"}
    /\ prover.status = "returned" => pf = proof.value
    /\ \E eta \in EtaValues, q \in QValues :
        \E eta_table \in {[key \in StatsKeys(pf) |-> Lookup(gsl_eta, key, eta)]},
           q_table \in {[key \in StatsKeys(pf) |-> Lookup(gsl_q, key, q)]} :
        \E out \in {check_proof(pf, epsilon, eta_table, q_table)} :
        \E asked \in {<<pf.params.kappa,
                         pf.params.input_domain.end - pf.params.input_domain.start,
                         out.v>>} :
              /\ verifier' = [status |-> VerifierAfter(out.status),
                              given |-> pf,
                              honest |-> prover.status = "returned",
                              epsilon |-> epsilon,
                              report |-> out.report,
                              v |-> out.v,
                              called |-> out.called,
                              domain |-> out.domain,
                              verdict |-> out.verdict,
                              examined |-> out.examined,
                              again |-> None]
              /\ gsl_eta' = Memo(gsl_eta, asked, eta_table[asked])
              /\ gsl_q' = IF out.status = "panic" /\ ~out.called THEN gsl_q
                          ELSE Memo(gsl_q, asked, q_table[asked])
    /\ UNCHANGED <<overflow_checks, emu, emu_log, prover, proof, call>>

\* Verifier::check_proof(proof, epsilon) once more, on the proof and the
\* epsilon of the check that has returned a report; again is what the
\* second call comes to.  The statistics are asked for the triple
\* (kappa, hi - lo, v) whatever the library returns, so a first evaluation
\* tells which triple it is, and GSL is consulted only if it is a new one
CheckAgain ==
    /\ verifier.status = "reported"
    /\ ~verifier.again.some
    /\ \E first \in {check_proof(verifier.given, verifier.epsilon,
                          [key \in StatsKeys(verifier.given) |-> Lookup(gsl_eta, key, NaN)],
                          [key \in StatsKeys(verifier.given) |-> Lookup(gsl_q, key, NaN)])} :
        \E asked \in {<<verifier.given.params.kappa,
                         verifier.given.params.input_domain.end
                            - verifier.given.params.input_domain.start,
                         first.v>>} :
        \E eta \in IF Known(gsl_eta, asked) THEN {gsl_eta[asked]} ELSE EtaValues,
           q \in IF Known(gsl_q, asked) THEN {gsl_q[asked]} ELSE QValues :
        \E out \in {IF Known(gsl_eta, asked) /\ Known(gsl_q, asked) THEN first
                     ELSE check_proof(verifier.given, verifier.epsilon,
                                      asked :> eta, asked :> q)} :
              /\ verifier' = [verifier EXCEPT !.again =
                                Some([status |-> VerifierAfter(out.status),
                                      report |-> out.report,
                                      called |-> out.called,
                                      domain |-> out.domain,
                                      verdict |-> out.verdict,
                                      examined |-> out.examined])]
              /\ gsl_eta' = Memo(gsl_eta, asked, eta)
              /\ gsl_q' = Memo(gsl_q, asked, q)
    /\ UNCHANGED <<overflow_checks, emu, emu_log, prover, proof, call>>

NextEmulator ==
    \/ \E f \in EmuFiles : EmuNew(f)
    \/ \E i \in Inputs : EmuRun(i)
    \/ \E i \in Inputs : EmuRunVm(i)
    \/ \E f \in EmuFiles, tape \in TapeFiles : from_cli(f, tape)
    \/ EmuReset

NextCkc ==
    \/ \E params \in ProverParams : ProverNew(params)
    \/ ObtainProof
    \/ \E pf \in ProofsAtHand : \E epsilon \in EpsilonsFor(pf) : CheckProof(pf, epsilon)
    \/ CheckAgain

(***************************************************************************)
(* Free functions called on their own                                      *)
(***************************************************************************)
\* a digest of SHA1_DIGEST_BYTES bytes: zero but for byte at (from 1) and,
\* when last is not 0, for its last byte
Digest(at, byte, last) ==
    [i \in 1..SHA1_DIGEST_BYTES |->
        IF i = at THEN byte ELSE IF i = SHA1_DIGEST_BYTES THEN last ELSE 0]

Digests ==
    {Digest(at, byte, last) :
        at \in 1..SHA1_DIGEST_BYTES, byte \in {0, 1, 16, 128, 255}, last \in {0, 255}}

\* ckc::vm::validate_hash(hash, kappa)
ValidateHash(hash, kappa) ==
    /\ call.fn = "none"
    /\ \E r \in {validate_hash(hash, kappa)} :
           call' = [fn |-> "validate_hash", hash |-> hash, kappa |-> kappa,
                    ok |-> r.ok, value |-> r.value]
    /\ UNCHANGED <<overflow_checks, emu, emu_log, prover, proof, verifier, gsl_eta,
                   gsl_q>>

\* the lines a source file is made of: every form of instruction, with
\* registers and labels inside and outside what the file declares
SourceLines ==
    {LabelLine("_a"), I1("jmp", Label("_a")), I1("cnjmp", Label("_b")),
     I1("cjmp", Imm(0))}
    \cup {I1("answer", Reg(r)) : r \in 0..2}
    \cup {I2("store.b", r, Imm(0)) : r \in 0..2}
    \cup {I2("mov", 0, Reg(r)) : r \in 1..2}
    \cup {I3("add", r, 0, Imm(1)) : r \in 1..2}
    \cup {I3("sub", 0, r, Imm(1)) : r \in 1..2}
    \cup {I3("xor", 0, 0, Reg(r)) : r \in 1..2}

SourceFiles ==
    {ProgramFile(10, w, k, lines) :
        w \in {16, USIZE_BITS - 1, USIZE_BITS, USIZE_BITS + 1}, k \in 1..2,
        lines \in {<<l>> : l \in SourceLines}
                 \cup {<<l, m>> : l \in {LabelLine("_a"), I1("jmp", Label("_a"))},
                                  m \in SourceLines}}

\* Parser::load_program(file)
LoadProgram(file) ==
    /\ call.fn = "none"
    /\ \E r \in {load_program(file)} :
           call' = [fn |-> "load_program", file |-> file, loaded |-> r]
    /\ UNCHANGED <<overflow_checks, emu, emu_log, prover, proof, verifier, gsl_eta,
                   gsl_q>>

\* a register value m * 2^e, for values beyond the integers of the model
Operand(m, e) == [m |-> m, e |-> e]
OperandUsize(x) == ShlN(Usize(x.m), x.e)

\* the number of bits of m (m < 16)
BitLen(m) == IF m = 0 THEN 0 ELSE IF m < 2 THEN 1 ELSE IF m < 4 THEN 2 ELSE IF m < 8 THEN 3 ELSE 4

\* the operands that fit a word of word_size bits
Operands(word_size) ==
    {x \in {Operand(m, e) : m \in {0, 1, 3}, e \in {0, 2, 3, 14, 15, 31, 32, 61, 62}} :
        /\ x.m = 0 => x.e = 0
        /\ BitLen(x.m) + x.e <= word_size}

WordSizes == {4, 16, USIZE_BITS - 1}

\* one instruction of a three-register machine, with a in r1 and b in r2
StepInputs ==
    {[word_size |-> w, instr |-> instr, a |-> a, b |-> b] :
        w \in WordSizes, a \in Operands(USIZE_BITS), b \in Operands(USIZE_BITS),
        instr \in {I3(op, 0, 1, arg) : op \in {"sub", "mull"},
                                       arg \in {Reg(2), Imm(-1), Imm(2)}}
                  \cup {I2(op, 1, arg) : op \in {"cmpg", "cmpge"},
                                         arg \in {Reg(2), Imm(-1), Imm(2)}}}

StepVM(in) ==
    LET vm == TinyVM_new([version |-> 10, word_size |-> in.word_size, registers |-> 3],
                         <<in.instr>>, <<>>)
    IN  start([vm EXCEPT !.state.registers =
                            <<USIZE_ZERO, OperandUsize(in.a), OperandUsize(in.b)>>,
                         !.state.tape1 = <<Usize(1)>>])

\* TinyVM::step on the machine of in
Step(in) ==
    /\ call.fn = "none"
    /\ in.a \in Operands(in.word_size) /\ in.b \in Operands(in.word_size)
    /\ in.instr.arg.kind = "Imm" => in.b = Operand(0, 0)
    /\ \E vm \in {StepVM(in)} :
           call' = [fn |-> "step", in |-> in, before |-> Snapshot(vm),
                    after |-> Snapshot(step(vm))]
    /\ UNCHANGED <<overflow_checks, emu, emu_log, prover, proof, verifier, gsl_eta,
                   gsl_q>>

\* stats::compute_q(kappa, u, r); q is what GSL makes of the arguments
ComputeQ(kappa, u, r) ==
    /\ call.fn = "none"
    /\ \E q \in QValues :
        \E out \in {compute_q([key \in {<<kappa, u, r>>} |-> Lookup(gsl_q, key, q)],
                              kappa, u, r)} :
           /\ call' = [fn |-> "compute_q", kappa |-> kappa, u |-> u, r |-> r,
                        out |-> out]
           /\ gsl_q' = IF out.panic THEN gsl_q ELSE Memo(gsl_q, <<kappa, u, r>>, q)
    /\ UNCHANGED <<overflow_checks, emu, emu_log, prover, proof, verifier, gsl_eta>>

\* one call is made in a behaviour
DigestsAtHand == IF call.fn = "none" THEN Digests ELSE {}
SourceFilesAtHand == IF call.fn = "none" THEN SourceFiles ELSE {}
StepInputsAtHand == IF call.fn = "none" THEN StepInputs ELSE {}
KappasAtHand == IF call.fn = "none" THEN Kappas ELSE {}

NextCalls ==
    \/ \E hash \in DigestsAtHand, kappa \in 0..(HASH_BITS + 1) :
           ValidateHash(hash, kappa)
    \/ \E file \in SourceFilesAtHand : LoadProgram(file)
    \/ \E in \in StepInputsAtHand : Step(in)
    \/ \E kappa \in KappasAtHand, u \in 0..(MaxInput + 1), r \in 0..(MaxWitnesses + 1) :
           ComputeQ(kappa, u, r)

Next == NextEmulator \/ NextCkc \/ NextCalls

SpecEmulator == Init /\ [][NextEmulator]_vars
SpecCkc == Init /\ [][NextCkc]_vars
SpecCalls == Init /\ [][NextCalls]_vars
Spec == Init /\ [][Next]_vars

(***************************************************************************)
(* Properties                                                              *)
(***************************************************************************)
\* the run of input i on an instance made for it alone
FreshRun(file, i) == InstrumentedVM_run(InstrumentedVM_new(file).ivm, i)

\* the digest, read as a 160-bit number, is below 2^kappa (digests of the
\* model are zero after their first two bytes; 144 <= kappa <= 160)
HashPasses(hash, kappa) ==
    /\ \A i \in 3..Len(hash) : hash[i] = 0
    /\ hash[1] * 256 + hash[2] < Pow2(kappa - 144)

LastRun == emu_log.last.value

\* C1: a run that starts on a fresh instance, or on an instance reset since
\* its last run, whatever was run on it before, gives the state stream, the
\* outcome, the output and the hash that a run of the same input on a new
\* instance of the same program gives.
C1_Determinism ==
    (emu_log.last.some /\ LastRun.clean) =>
        LET fresh == FreshRun(emu.file, LastRun.input)
        IN  /\ LastRun.kind = fresh.kind
            /\ LastRun.stream = fresh.stream
            /\ LastRun.res.output = fresh.res.output
            /\ LastRun.res.hash = fresh.res.hash

\* a run that returned Ok on an instance that had run another input before
C1_Witness ==
    /\ emu_log.last.some
    /\ LastRun.clean /\ LastRun.used
    /\ LastRun.kind = "Ok"
    /\ LastRun.prev_input.some /\ LastRun.prev_input.value # LastRun.input
    /\ Len(LastRun.stream) > 1

BestEffortReturned ==
    /\ prover.status = "returned"
    /\ prover.params.strategy.kind = "BestEffort"

\* input i, run on its own, is a witness for params
Accepted(params, i) ==
    /\ Range_contains(params.input_domain, i)
    /\ LET fresh == FreshRun(params.program_file, i)
       IN  /\ fresh.kind = "Ok"
           /\ fresh.res.output = Usize(params.expected_output)
           /\ HashPasses(fresh.res.hash, params.kappa)

\* C2: every index of the vset of a BestEffort proof lies in [lo, hi), the
\* program run on it outputs expected_output, and the hash of that run
\* passes the kappa predicate.
C2_ProverSoundness ==
    BestEffortReturned =>
        \A k \in 1..Len(proof.value.vset) :
            Accepted(proof.value.params, proof.value.vset[k])

C2_Witness ==
    /\ BestEffortReturned
    /\ Len(proof.value.vset) >= 2

\* C3: the vset of a BestEffort proof lists exactly the accepted inputs of
\* [lo, hi), in strictly ascending order, and the prover has executed every
\* input of the domain once, in ascending order.
C3_ProverCompleteness ==
    BestEffortReturned =>
        LET params == proof.value.params
            vset == proof.value.vset
            Accepts(i) == Accepted(params, i)
        IN  /\ vset = SelectSeq(Range_iter(params.input_domain), Accepts)
            /\ \A j, k \in 1..Len(vset) : j < k => vset[j] < vset[k]
            /\ prover.executed = Range_iter(params.input_domain)

\* some inputs of the domain are accepted and some are not
C3_Witness ==
    /\ BestEffortReturned
    /\ Len(proof.value.vset) >= 2
    /\ Len(proof.value.vset) < Len(prover.executed)

HonestBestEffortChecked ==
    /\ verifier.status # "idle"
    /\ verifier.honest
    /\ proof.value.params.strategy.kind = "BestEffort"

\* C4: the verifier handed a proof the BestEffort prover returned comes
\* back with a report, its validate_vset has returned Valid or
\* ValidButTooFewHashes, and it has re-validated every witness of the vset.
C4_HonestProofPasses ==
    HonestBestEffortChecked =>
        /\ verifier.status = "reported"
        /\ verifier.verdict.some
        /\ verifier.verdict.value.kind \in {"Valid", "ValidButTooFewHashes"}
        /\ Len(verifier.examined) = Len(proof.value.vset)

Validated == verifier.status = "reported" /\ verifier.called

\* what the checks, taken in the order domain, execution, output, hash,
\* make of an examined witness: the checks applied, and the verdict of the
\* first one that fails
StepsOf(e, pf, domain) ==
    IF ~Range_contains(domain, e.input) THEN <<"domain">>
    ELSE IF e.run.kind = "Err" THEN <<"domain", "execution">>
    ELSE IF e.run.output # Usize(pf.params.expected_output)
         THEN <<"domain", "execution", "output">>
    ELSE <<"domain", "execution", "output", "hash">>

FailureOf(e, pf, domain) ==
    IF ~Range_contains(domain, e.input) THEN Some(<<"IncorrectInput", e.input>>)
    ELSE IF e.run.kind = "Err" THEN Some(<<"ExecutionError", 0>>)
    ELSE IF e.run.output # Usize(pf.params.expected_output)
         THEN Some(<<"IncorrectOutput", e.run.output>>)
    ELSE IF ~HashPasses(e.run.hash, pf.params.kappa) THEN Some(<<"IncorrectHash", 0>>)
    ELSE None

\* C5: validate_vset examines the witnesses in vset order; to each it
\* applies the checks in the order domain, execution, output, hash, and a
\* witness outside the domain is not executed; every witness before the
\* last examined one passes; if the last examined one fails, its failure
\* is the verdict and no later witness is examined; otherwise the whole
\* vset has been examined and the verdict is Valid or ValidButTooFewHashes.
C5_FirstFailure ==
    (Validated /\ verifier.verdict.value.kind # "InvalidProgram") =>
        LET pf == verifier.report.proof
            domain == verifier.domain.value
            ex == verifier.examined
            n == Len(verifier.examined)
            verdict == verifier.verdict.value
        IN  /\ n <= Len(pf.vset)
            /\ \A k \in 1..n :
                /\ ex[k].input = pf.vset[k]
                /\ ex[k].steps = StepsOf(ex[k], pf, domain)
                /\ (ex[k].run.kind = "none") = ~Range_contains(domain, ex[k].input)
                /\ k < n => ~FailureOf(ex[k], pf, domain).some
            /\ IF n > 0 /\ FailureOf(ex[n], pf, domain).some
               THEN <<verdict.kind, verdict.arg>> = FailureOf(ex[n], pf, domain).value
               ELSE /\ n = Len(pf.vset)
                    /\ verdict.kind \in {"Valid", "ValidButTooFewHashes"}

\* the first of two witnesses fails the hash check and the second one is
\* not examined
C5_Witness ==
    /\ Validated
    /\ verifier.verdict.value.kind = "IncorrectHash"
    /\ Len(verifier.examined) < Len(verifier.report.proof.vset)

\* witness i of the proof, run on its own, passes the four checks
WitnessPasses(pf, domain, i) ==
    /\ Range_contains(domain, i)
    /\ InstrumentedVM_new(pf.params.program_file).ok
    /\ LET fresh == FreshRun(pf.params.program_file, i)
       IN  /\ fresh.kind = "Ok"
           /\ fresh.res.output = Usize(pf.params.expected_output)
           /\ HashPasses(fresh.res.hash, pf.params.kappa)

\* C6: validate_vset returns Valid or ValidButTooFewHashes only if every
\* witness of vset passes the domain, execution, output and hash checks;
\* it then returns Valid iff |vset| >= params.v, and ValidButTooFewHashes
\* with |vset| otherwise.  When the program loads and every witness passes,
\* it returns one of the two.
C6_ValidVerdict ==
    Validated =>
        LET pf == verifier.report.proof
            domain == verifier.domain.value
            verdict == verifier.verdict.value
            all_pass == \A k \in 1..Len(pf.vset) : WitnessPasses(pf, domain, pf.vset[k])
        IN  /\ verdict.kind \in {"Valid", "ValidButTooFewHashes"} =>
                /\ all_pass
                /\ (verdict.kind = "Valid") = (Len(pf.vset) >= pf.params.v)
                /\ verdict.kind = "ValidButTooFewHashes" => verdict.arg = Len(pf.vset)
            /\ (all_pass /\ InstrumentedVM_new(pf.params.program_file).ok) =>
                verdict.kind \in {"Valid", "ValidButTooFewHashes"}

\* every witness passes and there are exactly as many as params.v asks for
C6_Witness ==
    /\ Validated
    /\ verifier.verdict.value.kind = "Valid"
    /\ Len(verifier.report.proof.vset) = verifier.report.proof.params.v
    /\ Len(verifier.report.proof.vset) >= 1

Reported(kinds) ==
    /\ verifier.status = "reported"
    /\ verifier.report.proof.params.strategy.kind \in kinds

\* the argument triple (kappa, hi - lo, v) of the statistics of a report
StatsKey(pf, v) ==
    <<pf.params.kappa, pf.params.input_domain.end - pf.params.input_domain.start, v>>

\* the report carries the eta and the q computed at (kappa, hi - lo, v)
StatsAt(v) ==
    /\ verifier.v = v
    /\ Known(gsl_eta, StatsKey(verifier.report.proof, v))
    /\ Known(gsl_q, StatsKey(verifier.report.proof, v))
    /\ verifier.report.eta = gsl_eta[StatsKey(verifier.report.proof, v)]
    /\ verifier.report.q = gsl_q[StatsKey(verifier.report.proof, v)]

NoNaN == ~verifier.report.eta.nan /\ ~verifier.report.q.nan

\* C7: under FixedEffort the report carries the eta and q computed with
\* v = params.v and u = hi - lo, and valid is true iff q > 1 - epsilon,
\* validate_vset over the declared domain returns Valid, and neither q nor
\* eta is NaN.
C7_FixedEffortRule ==
    Reported({"FixedEffort"}) =>
        LET pf == verifier.report.proof
        IN  /\ StatsAt(pf.params.v)
            /\ verifier.report.valid =
                (/\ NoNaN
                 /\ verifier.report.q.num > 4 - verifier.epsilon.num
                 /\ validate_vset(pf, pf.params.input_domain).verdict.kind = "Valid")

\* an accepted FixedEffort proof with more witnesses than declared
C7_Witness ==
    /\ Reported({"FixedEffort"})
    /\ verifier.report.valid
    /\ Len(verifier.report.proof.vset) > verifier.report.proof.params.v

\* C8: under BestEffort and BestEffortAdaptive the report carries the eta
\* and q computed with v = |vset|, validate_vset is called over the
\* declared domain, and valid is true iff it returns Valid or
\* ValidButTooFewHashes and neither eta nor q is NaN.
C8_BestEffortRule ==
    Reported({"BestEffort", "BestEffortAdaptive"}) =>
        LET pf == verifier.report.proof
        IN  /\ StatsAt(Len(pf.vset))
            /\ verifier.called
            /\ verifier.domain = Some(pf.params.input_domain)
            /\ verifier.report.valid =
                (/\ verifier.verdict.value.kind \in {"Valid", "ValidButTooFewHashes"}
                 /\ NoNaN)

\* a BestEffortAdaptive proof accepted with fewer witnesses than declared
C8_Witness ==
    /\ Reported({"BestEffortAdaptive"})
    /\ verifier.report.valid
    /\ verifier.verdict.value.kind = "ValidButTooFewHashes"

\* C9: under OverTesting the report carries the eta and q computed with
\* v = |vset|, validate_vset is called over the extended domain of the
\* proof (the declared one when the proof carries none), and valid is true
\* iff it returns Valid.
C9_OverTestingRule ==
    Reported({"OverTesting"}) =>
        LET pf == verifier.report.proof
        IN  /\ StatsAt(Len(pf.vset))
            /\ verifier.called
            /\ verifier.domain =
                  Some(IF pf.extended_domain.some THEN pf.extended_domain.value
                       ELSE pf.params.input_domain)
            /\ verifier.report.valid = (verifier.verdict.value.kind = "Valid")

\* an accepted OverTesting proof with a witness outside the declared domain
C9_Witness ==
    /\ Reported({"OverTesting"})
    /\ verifier.report.valid
    /\ \E k \in 1..Len(verifier.report.proof.vset) :
          ~Range_contains(verifier.report.proof.params.input_domain,
                          verifier.report.proof.vset[k])

\* C10: whatever the strategy, a report whose eta or q is NaN has valid
\* false.
C10_NaNDisqualifies ==
    Reported({"FixedEffort", "BestEffort", "BestEffortAdaptive", "OverTesting"}) =>
        (~NoNaN => ~verifier.report.valid)

\* C11: the proof carried by a report is the proof check_proof was given:
\* the same vset in the same order, the same extended domain and the same
\* params, whatever the strategy and the verdict.
C11_ProofUntouched ==
    verifier.status = "reported" =>
        /\ verifier.report.proof.vset = verifier.given.vset
        /\ verifier.report.proof.extended_domain = verifier.given.extended_domain
        /\ verifier.report.proof.params = verifier.given.params

\* a rejected OverTesting proof with an extended domain and two witnesses
\* that are not in ascending order
C11_Witness ==
    /\ Reported({"OverTesting"})
    /\ ~verifier.report.valid
    /\ verifier.given.extended_domain.some
    /\ Len(verifier.given.vset) = 2
    /\ verifier.given.vset[1] > verifier.given.vset[2]

C13_InvalidProgram ==
    (verifier.status = "reported"
        /\ ~InstrumentedVM_new(verifier.given.params.program_file).ok) =>
        /\ ~verifier.report.valid
        /\ verifier.given.params.strategy.kind # "FixedEffort" => verifier.called
        /\ verifier.called =>
            /\ verifier.verdict.some
            /\ verifier.verdict.value.kind = "InvalidProgram"
            /\ verifier.examined = <<>>

\* the program does not load and the first witness is outside the domain
C13_Witness ==
    /\ Validated
    /\ verifier.verdict.value.kind = "InvalidProgram"
    /\ verifier.given.vset # <<>>
    /\ ~Range_contains(verifier.domain.value, verifier.given.vset[1])

\* TinyVM::run on a new instance of the program with input i on the
\* primary tape
RunOf(file, i) ==
    run(load_tapes(InstrumentedVM_new(file).ivm.vm, <<<<Usize(i)>>, <<>>>>),
        [hasher |-> Sha1_new, stream |-> <<>>])

\* pc indexes an instruction of the program
InProgram(program, pc) == IsSmall(pc) /\ ToNat(pc) < Len(program)

ProgramOf(file) == InstrumentedVM_new(file).ivm.vm.state.program

\* the loop has reached, while running, a pc outside the program
Faults(program, trace) ==
    \E k \in 1..Len(trace) :
        trace[k].running /\ ~InProgram(program, trace[k].pc)

\* the run has halted with a result other than 0
HaltsNonZero(trace) ==
    LET last == trace[Len(trace)]
    IN  ~last.running /\ ~last.trap /\ last.result # USIZE_ZERO

\* the run of input i cannot complete: it ends in an execution fault or
\* halts with a non-zero answer
CannotComplete(file, i) ==
    LET Of(r) == ~r.hung /\ (Faults(ProgramOf(file), r.trace) \/ HaltsNonZero(r.trace))
    IN  Of(RunOf(file, i))

\* C14: when validate_vset executes a witness whose run ends in an
\* execution fault (pc outside the program) or halts with a non-zero
\* answer, the verifier does not abort: check_proof returns a report, the
\* verdict of validate_vset is ExecutionError, and that witness is the last
\* one examined.
C14_ExecutionError ==
    (verifier.status # "idle" /\ verifier.called) =>
        \A k \in 1..Len(verifier.examined) :
            (/\ verifier.examined[k].run.kind # "none"
             /\ CannotComplete(verifier.given.params.program_file,
                               verifier.examined[k].input)) =>
                /\ verifier.status = "reported"
                /\ verifier.verdict.some
                /\ verifier.verdict.value.kind = "ExecutionError"
                /\ verifier.examined[k].run.kind = "Err"
                /\ k = Len(verifier.examined)

\* the last run the emulator has made, by InstrumentedVM::run,
\* run_vm_with_callback or from_cli
HasRun == emu_log.last.some \/ emu_log.last_tapes.some
LastTrace ==
    IF emu_log.last.some THEN LastRun.trace ELSE emu_log.last_tapes.value.trace
LastKind ==
    IF emu_log.last.some THEN LastRun.kind ELSE emu_log.last_tapes.value.kind

\* C15: whenever the run loop is at a pc that does not index an instruction
\* of the program, the next step is executed as `answer 1`: the VM stops
\* running with result 1, the state is streamed once more, and pc, flag,
\* registers, memory and tapes are left as they were.
C15_Segfault ==
    (HasRun /\ LastKind # "hang") =>
        \A k \in 1..Len(LastTrace) :
            (/\ LastTrace[k].running
             /\ ~LastTrace[k].trap
             /\ ~InProgram(ProgramOf(emu.file), LastTrace[k].pc)) =>
                /\ k + 1 = Len(LastTrace)
                /\ LastTrace[k + 1] = [LastTrace[k] EXCEPT !.running = FALSE,
                                                           !.result = Usize(1)]
                /\ emu_log.last.some => Len(LastRun.stream) = k

\* C16: when the program halts with an answer other than 0, the run
\* operation of the emulator (InstrumentedVM::run, run_vm_with_callback,
\* run_vm) returns normally to its caller: it neither returns an error nor
\* aborts.
C16_NoThrow ==
    (HasRun /\ HaltsNonZero(LastTrace)) => LastKind = "Ok"

\* the run has halted with result 0
HaltsZero(trace) ==
    LET last == trace[Len(trace)]
    IN  ~last.running /\ ~last.trap /\ last.result = USIZE_ZERO

LastOutput ==
    IF emu_log.last.some THEN LastRun.res.output ELSE emu_log.last_tapes.value.output

\* C17: after a run halts with answer 0 the output returned is the
\* little-endian 8-byte word at memory addresses 0..7, and 0 when the
\* memory grown during the run is shorter than 8 bytes.
C17_Output ==
    (HasRun /\ HaltsZero(LastTrace)) =>
        LET memory == LastTrace[Len(LastTrace)].memory
        IN  /\ LastKind = "Ok"
            /\ LastOutput = IF Len(memory) >= USIZE_BYTES
                            THEN from_le_bytes(SubSeq(memory, 1, USIZE_BYTES))
                            ELSE USIZE_ZERO

\* C18: after reset_state (called by InstrumentedVM::run after a run that
\* returned Ok, or by the caller) the VM is the one construction gave:
\* running, pc, flag, registers, tapes, memory, result, and the program and
\* the label table, whatever was run before.
C18_Reset ==
    (emu.status = "ready" /\ emu.clean) =>
        emu.ivm.vm = InstrumentedVM_new(emu.file).ivm.vm

\* a usize that fits a word of word_size bits: at most 2^word_size - 1
FitsWord(x, word_size) == ShrN(x, word_size) = USIZE_ZERO

\* C19: in every state of a run with word size W each of the K registers
\* holds a value of at most 2^W - 1, whatever instructions were executed and
\* whatever the tapes hold.
C19_RegisterBound ==
    HasRun =>
        LET params == InstrumentedVM_new(emu.file).ivm.vm.params
        IN  \A k \in 1..Len(LastTrace) :
                /\ Len(LastTrace[k].registers) = params.registers
                /\ \A i \in 1..params.registers :
                       FitsWord(LastTrace[k].registers[i], params.word_size)

\* the step taken from snapshot before to snapshot after is a successful
\* `read reg, tape` (tape 0 or 1, the tape not empty) that removes the front
\* element of that tape, writes it to reg, clears flag and leaves the other
\* tape as it was
ReadsFront(instr, before, after) ==
    LET primary == instr.arg.x = 0
        tape == IF primary THEN before.tape1 ELSE before.tape2
    IN  tape # <<>> =>
            /\ after.registers[instr.reg.index + 1] = Head(tape)
            /\ ~after.flag
            /\ after.tape1 = IF primary THEN Tail(tape) ELSE before.tape1
            /\ after.tape2 = IF primary THEN before.tape2 ELSE Tail(tape)

\* C20: successive `read reg, 0` deliver the words of the primary tape in
\* tape order, first loaded word first: each successful read removes the
\* front element of the tape, writes it to reg and clears flag; `read reg,
\* 1` does the same on the secondary tape; a read on one tape leaves the
\* other tape unchanged.
C20_TapeOrder ==
    HasRun =>
        LET program == ProgramOf(emu.file)
        IN  \A k \in 1..(Len(LastTrace) - 1) :
                (/\ ~LastTrace[k + 1].trap
                 /\ InProgram(program, LastTrace[k].pc)
                 /\ program[ToNat(LastTrace[k].pc) + 1].op = "read"
                 /\ program[ToNat(LastTrace[k].pc) + 1].arg.kind = "Imm"
                 /\ program[ToNat(LastTrace[k].pc) + 1].arg.x \in {0, 1}) =>
                    ReadsFront(program[ToNat(LastTrace[k].pc) + 1],
                               LastTrace[k], LastTrace[k + 1])

RECURSIVE BigEndianLess(_, _)
\* a < b for two numbers written as byte strings of the same length, most
\* significant byte first
BigEndianLess(a, b) ==
    IF a = <<>> THEN FALSE
    ELSE IF Head(a) # Head(b) THEN Head(a) < Head(b)
    ELSE BigEndianLess(Tail(a), Tail(b))

\* 2^kappa as SHA1_DIGEST_BYTES big-endian bytes, for kappa < HASH_BITS
PowerOfTwo(kappa) ==
    [i \in 1..SHA1_DIGEST_BYTES |->
        IF i = SHA1_DIGEST_BYTES - (kappa \div 8) THEN Pow2(kappa % 8) ELSE 0]

\* the digest, read as a big-endian 160-bit integer, is below 2^kappa
BelowPowerOfTwo(hash, kappa) ==
    kappa = HASH_BITS \/ BigEndianLess(hash, PowerOfTwo(kappa))

\* C21: for kappa <= 160, validate_hash(h, kappa) returns, and returns true
\* iff h read as a big-endian 160-bit integer is below 2^kappa; kappa = 160
\* accepts every digest and kappa = 0 the all-zero digest only.
C21_HashPredicate ==
    (call.fn = "validate_hash" /\ call.kappa <= HASH_BITS) =>
        /\ call.ok
        /\ call.value <=> BelowPowerOfTwo(call.hash, call.kappa)
        /\ call.kappa = HASH_BITS => call.value
        /\ call.kappa = 0 => (call.value <=> call.hash = Digest(1, 0, 0))

\* a digest whose first set bit is bit 4 of byte 3 is accepted with kappa =
\* 141, which looks at its first 19 bits
C21_Witness ==
    /\ call.fn = "validate_hash"
    /\ call.hash = Digest(3, 16, 255)
    /\ call.kappa = 141
    /\ call.value

AdaptiveReturned ==
    /\ prover.status = "returned"
    /\ prover.params.strategy.kind = "BestEffortAdaptive"

\* the accepted inputs among the first n of the sequence inputs
AcceptedAmong(params, inputs, n) ==
    {k \in 1..n : Accepted(params, inputs[k])}

\* the number of inputs the adaptive loop executes: up to the first one at
\* which more than threshold inputs are accepted, the whole sequence if
\* there is none
StopsAfter(params, inputs, threshold) ==
    LET over == {n \in 1..Len(inputs) :
                    Cardinality(AcceptedAmong(params, inputs, n)) > threshold}
    IN  IF over = {} THEN Len(inputs)
        ELSE CHOOSE n \in over : \A m \in over : n <= m

\* C22: under BestEffortAdaptive the prover executes the inputs of the
\* declared domain in ascending order and stops right after the first input
\* at which |vset| > v_min; no later input is executed, and the whole
\* domain is executed when the threshold is never exceeded.
C22_AdaptiveStop ==
    AdaptiveReturned =>
        LET params == proof.value.params
            inputs == Range_iter(params.input_domain)
            n == StopsAfter(params, inputs, prover.threshold)
        IN  /\ prover.executed = SubSeq(inputs, 1, n)
            /\ Len(proof.value.vset) = Cardinality(AcceptedAmong(params, inputs, n))
            /\ \A k \in 1..Len(proof.value.vset) :
                   Accepted(params, proof.value.vset[k])
            /\ proof.value.extended_domain = None

\* the loop has run a rejected input, then its first witness, and has
\* stopped before an input that would have been a witness too
C22_Witness ==
    /\ AdaptiveReturned
    /\ prover.threshold = 0
    /\ proof.value.vset = <<1>>
    /\ prover.executed = <<0, 1>>
    /\ Accepted(proof.value.params, 2)

OverTestingReturned ==
    /\ prover.status = "returned"
    /\ prover.params.strategy.kind = "OverTesting"

\* C23: under OverTesting the prover executes exactly the inputs of
\* [lo, hi + Du) in ascending order, Du being the value compute_delta_u
\* returns, a non-negative integer, so that the range is never shorter than
\* the declared domain, and records that range as proof.extended_domain.
C23_OverTestingDomain ==
    OverTestingReturned =>
        LET lo == prover.params.input_domain.start
            hi == prover.params.input_domain.end
        IN  /\ prover.delta \in Nat
            /\ prover.executed = [k \in 1..(hi + prover.delta - lo) |-> lo + k - 1]
            /\ Len(prover.executed) >= hi - lo
            /\ proof.value.extended_domain = Some(Range(lo, hi + prover.delta))
            /\ proof.value.params = prover.params

\* the input hi, outside the declared domain, has been executed
C23_Witness ==
    /\ OverTestingReturned
    /\ prover.delta = 1
    /\ prover.params.input_domain = Range(0, 2)
    /\ prover.executed = <<0, 1, 2>>
    /\ proof.value.extended_domain = Some(Range(0, 3))

\* obtain_proof has been called on FixedEffort parameters
FixedEffortCalled ==
    /\ prover.status \notin {"none", "ready"}
    /\ Prover_new(prover.params).ok
    /\ prover.params.strategy.kind = "FixedEffort"

\* C24: for the same program, domain, expected output, kappa and v, the
\* prover does under FixedEffort what it does under BestEffort: it executes
\* the same inputs, ends the same way and, when a proof is returned, the
\* proof has the same vset and no extended_domain.
C24_FixedEffortIsBestEffort ==
    FixedEffortCalled =>
        LET Same(best) ==
                /\ prover.status = ProverAfter(best.kind)
                /\ prover.executed = best.executed
                /\ best.kind = "Ok" =>
                       /\ proof.value.vset = best.proof.vset
                       /\ proof.value.extended_domain = None
                       /\ best.proof.extended_domain = None
                       /\ proof.value.params = prover.params
        IN  Same(obtain_proof_best_effort([prover.params EXCEPT !.strategy = BestEffort]))

\* a FixedEffort proof that holds more witnesses than v asks for
C24_Witness ==
    /\ FixedEffortCalled
    /\ prover.status = "returned"
    /\ Len(proof.value.vset) = 2
    /\ prover.params.v = 0

\* the snapshots of a trace that a completed step has left
StepsDone(trace) == {k \in 2..Len(trace) : ~trace[k].trap}

RECURSIVE HashOf(_, _)
\* the SHA-1 state after the snapshots of stream have been fed to it in turn
HashOf(h, stream) ==
    IF stream = <<>> THEN h
    ELSE HashOf(Sha1_update(h, Head(stream)), Tail(stream))

\* C25: during a run the callback receives the encoding of the state each
\* executed instruction leaves, once per instruction and in execution
\* order, the halting answer step included (real or synthesized); nothing
\* is streamed before the first instruction, and the hash is the one of the
\* program followed by all those snapshots.
C25_StreamPerStep ==
    emu_log.last.some =>
        /\ Len(LastRun.stream) = Cardinality(StepsDone(LastRun.trace))
        /\ \A k \in 1..Len(LastRun.stream) :
               LastRun.stream[k] = Flatten(process_state(LastRun.trace[k + 1]))
        /\ LastRun.res.hash =
               Sha1_finalize(HashOf(Sha1_update(Sha1_new, emu.ivm.program),
                                    LastRun.stream))

\* a run that ends with the synthesized answer after four instructions
C25_Witness ==
    /\ emu_log.last.some
    /\ emu.file = "fall.tr"
    /\ LastRun.kind = "Err"
    /\ Len(LastRun.stream) = 5
    /\ ~LastRun.trace[6].running
    /\ LastRun.stream[5] = Flatten(process_state(LastRun.trace[5]))

\* byte j (from 1) of the 8 big-endian bytes of a usize
BigEndianByte(x, j) == x[USIZE_BYTES + 1 - j]

\* bytes is the canonical encoding of the state: pc as 8 big-endian bytes,
\* one flag byte, each register in index order as 8 big-endian bytes, then
\* the bytes of memory in address order, and nothing else
CanonicalLayout(bytes, state) ==
    LET K == Len(state.registers)
        regs == USIZE_BYTES + 1
        mem == regs + USIZE_BYTES * K
    IN  /\ Len(bytes) = 9 + 8 * K + Len(state.memory)
        /\ \A j \in 1..USIZE_BYTES : bytes[j] = BigEndianByte(state.pc, j)
        /\ bytes[regs] \in {0, 1}
        /\ bytes[regs] = 1 <=> state.flag
        /\ \A i \in 1..K : \A j \in 1..USIZE_BYTES :
               bytes[regs + USIZE_BYTES * (i - 1) + j]
                   = BigEndianByte(state.registers[i], j)
        /\ \A a \in 1..Len(state.memory) : bytes[mem + a] = state.memory[a]

\* C26: every per-step snapshot consists, in this order, of pc as 8
\* big-endian bytes, one flag byte equal to 0 or 1, each of the K registers
\* in index order as 8 big-endian bytes, and every byte of the memory grown
\* so far in address order: 9 + 8*K + |memory| bytes, and nothing else.
C26_CanonicalLayout ==
    emu_log.last.some =>
        \A k \in 1..Len(LastRun.stream) :
            CanonicalLayout(LastRun.stream[k], LastRun.trace[k + 1])

\* a snapshot with a non-zero pc, the flag set, two different registers and
\* a memory of 8 bytes that are not all zero
C26_Witness ==
    /\ emu_log.last.some
    /\ \E k \in 1..Len(LastRun.stream) :
           /\ LastRun.trace[k + 1].pc # USIZE_ZERO
           /\ LastRun.trace[k + 1].flag
           /\ LastRun.trace[k + 1].registers[1] # LastRun.trace[k + 1].registers[2]
           /\ Len(LastRun.trace[k + 1].memory) = USIZE_BYTES
           /\ LastRun.trace[k + 1].memory # [a \in 1..USIZE_BYTES |-> 0]
           /\ Len(LastRun.stream[k]) = 33

(***************************************************************************)
(* C27: every emulator load_program returns has a word size of at most 64  *)
(* bits, uses only registers below its register count, as operands and as  *)
(* arguments, and refers only to labels of its resolved label table; a     *)
(* file that breaks one of the three is rejected and no emulator is built. *)
(***************************************************************************)
RegistersOf(instr) ==
    (IF "reg" \in DOMAIN instr THEN {instr.reg.index} ELSE {})
    \cup (IF "reg1" \in DOMAIN instr THEN {instr.reg1.index, instr.reg2.index} ELSE {})
    \cup (IF instr.arg.kind = "Reg" THEN {instr.arg.reg.index} ELSE {})

LabelsOf(instr) == IF instr.arg.kind = "Label" THEN {instr.arg.ident} ELSE {}

InstructionLines(file) ==
    {file.lines[i] : i \in {j \in 1..Len(file.lines) : ~IsLabelLine(file.lines[j])}}

LabelLines(file) ==
    {file.lines[i].label : i \in {j \in 1..Len(file.lines) : IsLabelLine(file.lines[j])}}

WideWord(file) == file.word_size > 64
MissingRegister(file) ==
    \E instr \in InstructionLines(file) : \E r \in RegistersOf(instr) : r >= file.registers
MissingLabel(file) ==
    \E instr \in InstructionLines(file) : \E l \in LabelsOf(instr) : l \notin LabelLines(file)

WellBuilt(vm) ==
    /\ vm.params.word_size <= 64
    /\ \A i \in 1..Len(vm.state.program) :
           /\ \A r \in RegistersOf(vm.state.program[i]) :
                  r < vm.params.registers /\ r + 1 \in DOMAIN vm.state.registers
           /\ \A l \in LabelsOf(vm.state.program[i]) : l \in DOMAIN vm.resolved_labels

C27_ConstructionInvariants ==
    call.fn = "load_program" =>
        /\ call.loaded.ok => WellBuilt(call.loaded.vm)
        /\ WideWord(call.file) \/ MissingRegister(call.file) \/ MissingLabel(call.file)
               => ~call.loaded.ok /\ DOMAIN call.loaded = {"ok"}

\* a file whose only fault is a jump to a label it does not define
C27_Witness ==
    /\ call.fn = "load_program"
    /\ MissingLabel(call.file)
    /\ ~WideWord(call.file) /\ ~MissingRegister(call.file)
    /\ check_params(call.file)
    /\ ~call.loaded.ok

\* the state State::reset leaves: the one of construction
IsReset(vm) == vm.state = State_init(vm.state.program, vm.params.registers)

\* C28: after each call of InstrumentedVM::run that returns, with a RunResult
\* or with an error, the VM is in its reset state: pc 0, flag clear, zeroed
\* registers, empty memory and empty tapes, so that the next run starts
\* from there.
C28_ResetOnEveryPath ==
    [][(\E i \in Inputs : EmuRun(i)) /\ emu'.status = "ready" => IsReset(emu'.ivm.vm)]_vars

\* the address of a label: the number of instructions above its line
LabelAddress(file, ident) ==
    LET lines == FileSystem(file).lines
        at == CHOOSE i \in 1..Len(lines) : IsLabelLine(lines[i]) /\ lines[i].label = ident
    IN  Usize(Cardinality({j \in 1..(at - 1) : ~IsLabelLine(lines[j])}))

\* what an argument stands for in the state before the instruction
ArgumentIn(file, before, arg) ==
    CASE arg.kind = "Imm" -> to_unsigned(arg.x)
      [] arg.kind = "Reg" -> before.registers[arg.reg.index + 1]
      [] arg.kind = "Label" -> LabelAddress(file, arg.ident)

NextPc(before) == chk_add(before.pc, Usize(1)).v

ControlFlow(file, instr, before, after) ==
    LET target == ArgumentIn(file, before, instr.arg)
    IN  /\ after.flag = before.flag
        /\ after.registers = before.registers
        /\ after.memory = before.memory
        /\ after.tape1 = before.tape1 /\ after.tape2 = before.tape2
        /\ CASE instr.op = "jmp" -> after.pc = target
             [] instr.op = "cjmp" ->
                    after.pc = IF before.flag THEN target ELSE NextPc(before)
             [] instr.op = "cnjmp" ->
                    after.pc = IF before.flag THEN NextPc(before) ELSE target
             [] instr.op = "answer" ->
                    after.result = target /\ ~after.running /\ after.pc = before.pc

\* the steps of a trace that executed an instruction of ops
TraceSteps(program, trace, ops) ==
    {k \in 1..(Len(trace) - 1) :
        /\ trace[k].running /\ ~trace[k + 1].trap
        /\ InProgram(program, trace[k].pc)
        /\ program[ToNat(trace[k].pc) + 1].op \in ops}

\* C29: jmp sets pc to what its argument resolves to; cjmp does so when flag
\* is set and cnjmp when flag is clear, and each sets pc to pc + 1 otherwise;
\* answer sets result to what its argument resolves to, stops the VM and
\* leaves pc at the answer instruction; none of the four changes flag,
\* registers, memory or tapes.
C29_ControlFlow ==
    HasRun =>
        LET program == ProgramOf(emu.file)
        IN  \A k \in TraceSteps(program, LastTrace, Ops1) :
                ControlFlow(emu.file, program[ToNat(LastTrace[k].pc) + 1],
                            LastTrace[k], LastTrace[k + 1])

\* jumps.tr on input 1: cnjmp falls through with flag set, jmp goes where a
\* register says, and answer gives the register as the result
C29_Witness ==
    /\ HasRun /\ emu.file = "jumps.tr"
    /\ LET program == ProgramOf(emu.file)
       IN  /\ \E k \in TraceSteps(program, LastTrace, {"cnjmp"}) :
                  LastTrace[k].flag /\ LastTrace[k + 1].pc = NextPc(LastTrace[k])
           /\ \E k \in TraceSteps(program, LastTrace, {"jmp"}) :
                  LastTrace[k + 1].pc = Usize(6)
           /\ \E k \in TraceSteps(program, LastTrace, {"answer"}) :
                  /\ LastTrace[k + 1].result = Usize(1)
                  /\ LastTrace[k + 1].pc = LastTrace[k].pc

\* the bytes a store of size at addr must leave: the written span holds
\* written, every other byte is the old one, or 0 where there was none
Stored(before, after, addr, size, written) ==
    /\ Len(after.memory) =
           IF Len(before.memory) >= addr + size THEN Len(before.memory) ELSE addr + size
    /\ \A a \in 1..Len(after.memory) :
           after.memory[a] =
               IF a > addr /\ a <= addr + size THEN written[a - addr]
               ELSE IF a <= Len(before.memory) THEN before.memory[a]
               ELSE 0

StoreStep(file, instr, before, after) ==
    LET addr == ToNat(ArgumentIn(file, before, instr.arg))
        value == before.registers[instr.reg.index + 1]
    IN  IF instr.op = "store.b"
        THEN Stored(before, after, addr, 1, <<value[1]>>)
        ELSE Stored(before, after, addr, USIZE_BYTES, value)

\* C30: a store of size s (1 for store.b, 8 for store.w) at addr leaves a
\* memory of length max(old length, addr + s); store.b writes the low byte
\* of the register at addr and store.w the register as 8 little-endian
\* bytes at addr..addr+7; new bytes outside the written span are 0, old
\* bytes outside it are unchanged, and the memory never shrinks in a run.
C30_MemoryStores ==
    HasRun =>
        LET program == ProgramOf(emu.file)
        IN  /\ \A k \in TraceSteps(program, LastTrace, {"store.b", "store.w"}) :
                   StoreStep(emu.file, program[ToNat(LastTrace[k].pc) + 1],
                             LastTrace[k], LastTrace[k + 1])
            /\ \A k \in 1..(Len(LastTrace) - 1) :
                   Len(LastTrace[k + 1].memory) >= Len(LastTrace[k].memory)

(***************************************************************************)
(* Arithmetic on one instruction.  Numbers are compared as the sets of the *)
(* positions of their 1 bits, so that the expected value is stated without *)
(* the machine arithmetic of the handlers.                                 *)
(***************************************************************************)
BitSet(u) == {p \in 0..(USIZE_BITS - 1) : (u[(p \div 8) + 1] \div Pow2(p % 8)) % 2 = 1}
IntBits(n) == {p \in 0..30 : (n \div Pow2(p)) % 2 = 1}

\* the bits of d mod 2^word_size, for an integer d of either sign
ModBits(d, word_size) ==
    IF d >= 0 THEN {p \in IntBits(d) : p < word_size}
    ELSE {p \in 0..(word_size - 1) : p \notin IntBits(-d - 1)}

HasInt(x) == x.e <= 15
IntValue(x) == x.m * Pow2(x.e)

Stepped(ops) == call.fn = "step" /\ call.in.instr.op \in ops

\* the argument as an integer: the register operand, or the immediate
\* (a negative immediate resolves to 2^64 minus its absolute value)
IntArgument(in) == IF in.instr.arg.kind = "Reg" THEN IntValue(in.b) ELSE in.instr.arg.x

SubStored(in, after) ==
    LET bits == ModBits(IntValue(in.a) - IntArgument(in), in.word_size)
    IN  /\ ~after.trap
        /\ BitSet(after.registers[1]) = bits
        /\ after.flag = ((in.word_size - 1) \notin bits)

\* C31: for every register value a and every value b an argument resolves
\* to, b > a and negative immediates included, sub stores (a - b) mod 2^W
\* in the destination register and sets flag to the negation of bit W-1 of
\* the result.
C31_Sub ==
    (Stepped({"sub"}) /\ HasInt(call.in.a) /\ HasInt(call.in.b)) =>
        SubStored(call.in, call.after)

\* the argument as an operand, when it is not a negative immediate
OperandArgument(in) ==
    IF in.instr.arg.kind = "Reg" THEN in.b ELSE Operand(in.instr.arg.x, 0)

\* the bits of the unbounded product of two operands
ProductBits(x, y) == {p + x.e + y.e : p \in IntBits(x.m * y.m)}

MullStored(in, after) ==
    LET bits == ProductBits(in.a, OperandArgument(in))
    IN  /\ ~after.trap
        /\ BitSet(after.registers[1]) = {p \in bits : p < in.word_size}
        /\ after.flag = (\E p \in bits : p >= in.word_size)

\* C32: for all operands a, b <= MASK and every supported word size, mull
\* stores (a * b) mod 2^W in the destination register and sets flag iff the
\* unbounded product a * b is greater than MASK, also when the product
\* does not fit a 64-bit word.
C32_Mull ==
    (Stepped({"mull"}) /\ (call.in.instr.arg.kind = "Imm" => call.in.instr.arg.x >= 0)) =>
        MullStored(call.in, call.after)

\* the operand has bit word_size - 1 set: as a two's-complement word it is
\* negative
Negative(x, word_size) == x.m # 0 /\ BitLen(x.m) + x.e = word_size

\* x < y for operands m * 2^e with m in {0, 1, 3}: by the highest bit, then
\* by m
OperandLess(x, y) ==
    \/ BitLen(x.m) + x.e < BitLen(y.m) + y.e
    \/ BitLen(x.m) + x.e = BitLen(y.m) + y.e /\ x.m < y.m

\* signed(x) < signed(y) for words of word_size bits
SignedLess(x, y, word_size) ==
    IF Negative(x, word_size) # Negative(y, word_size) THEN Negative(x, word_size)
    ELSE OperandLess(x, y)

Compared(in, before, after) ==
    LET arg == OperandArgument(in)
        less == SignedLess(arg, in.a, in.word_size)
    IN  /\ ~after.trap
        /\ after.flag = IF in.instr.op = "cmpg" THEN less ELSE (less \/ arg = in.a)
        /\ after.registers = before.registers
        /\ after.memory = before.memory
        /\ after.tape1 = before.tape1 /\ after.tape2 = before.tape2

\* C33: cmpg sets flag iff signed(arg) < signed(reg) and cmpge iff
\* signed(arg) <= signed(reg), signed(x) being the two's-complement value
\* of the W-bit word x (negative when bit W-1 is set); neither changes a
\* register, memory or a tape.
C33_SignedCompare ==
    (Stepped({"cmpg", "cmpge"})
        /\ (call.in.instr.arg.kind = "Imm" => call.in.instr.arg.x >= 0)) =>
        Compared(call.in, call.before, call.after)

\* C34: compute_q(kappa, u, r) returns 0 whenever u < 1 or r < 1, and
\* returns a value without failing for every (kappa, u, r), r > u included.
C34_ComputeQTotal ==
    call.fn = "compute_q" =>
        /\ ~call.out.panic
        /\ (call.u < 1 \/ call.r < 1) => call.out.val = F64(0)

\* the callbacks of the model: the one that does nothing, the hasher of the
\* instrumented emulator, and a hasher that starts from another state
Callbacks(file) ==
    {[hasher |-> Sha1_new, stream |-> <<>>],
     [hasher |-> Sha1_update(Sha1_new, InstrumentedVM_new(file).ivm.program),
      stream |-> <<>>],
     [hasher |-> Sha1_update(Sha1_new, <<1>>), stream |-> <<>>]}

SameExecution(kind, value, trace, other) ==
    /\ other.kind = kind
    /\ other.value = value
    /\ other.trace = trace

C36_OverTestingWitnesses ==
    OverTestingReturned =>
        LET Same(best) ==
                /\ best.kind = "Ok"
                /\ best.proof.vset = proof.value.vset
        IN  /\ \A k \in 1..Len(proof.value.vset) :
                   Range_contains(prover.params.input_domain, proof.value.vset[k])
            /\ Same(obtain_proof_best_effort([prover.params EXCEPT !.strategy = BestEffort]))

\* the input hi has been executed and, with the expected output and a hash
\* that passes, would be a witness if the domain reached it
C36_Witness ==
    /\ OverTestingReturned
    /\ prover.delta = 1
    /\ prover.params.input_domain = Range(0, 2)
    /\ prover.executed = <<0, 1, 2>>
    /\ Accepted([prover.params EXCEPT !.input_domain = Range(0, 3)], 2)
    /\ proof.value.vset # <<>>
    /\ \A k \in 1..Len(proof.value.vset) : proof.value.vset[k] # 2

\* C37: validate_vset does not require the witnesses to be distinct: every
\* element of vset is checked on its own and counted with multiplicity, so
\* a vset that repeats a passing index params.v times yields Valid, as
\* params.v distinct passing indices would.
C37_Multiplicity ==
    Validated =>
        LET pf == verifier.report.proof
            domain == verifier.domain.value
            n == Len(pf.vset)
        IN  ((\E j, k \in 1..n : j < k /\ pf.vset[j] = pf.vset[k])
             /\ \A k \in 1..n : WitnessPasses(pf, domain, pf.vset[k])) =>
                /\ verifier.verdict.value =
                       IF n >= pf.params.v THEN Valid ELSE ValidButTooFewHashes(n)
                /\ Len(verifier.examined) = n
                /\ \A k \in 1..n : verifier.examined[k].input = pf.vset[k]

\* one passing index listed MaxWitnesses times for params.v = MaxWitnesses
C37_Witness ==
    /\ Validated
    /\ verifier.report.proof.params.v = MaxWitnesses
    /\ Len(verifier.report.proof.vset) = MaxWitnesses
    /\ \A k \in 1..MaxWitnesses :
           verifier.report.proof.vset[k] = verifier.report.proof.vset[1]
    /\ verifier.verdict.value = Valid

\* check_proof on the proof with params.v replaced by w, GSL giving what it
\* has given before
CheckedWith(pf, w, epsilon) ==
    LET other == [pf EXCEPT !.params.v = w]
    IN  check_proof(other, epsilon,
                    [key \in StatsKeys(other) |-> Lookup(gsl_eta, key, NaN)],
                    [key \in StatsKeys(other) |-> Lookup(gsl_q, key, NaN)])

SameVerdict(other) ==
    /\ other.status = "Ok"
    /\ other.report.eta = verifier.report.eta
    /\ other.report.q = verifier.report.q
    /\ other.report.valid = verifier.report.valid

\* C38: under BestEffort and BestEffortAdaptive two proofs that differ only
\* in params.v receive the same eta, q and valid from check_proof (the
\* reported proof and the same proof with params.v on the other side of
\* |vset|: more than it holds, or none); a proof
\* with fewer than params.v witnesses, all of which check, is accepted
\* whenever eta and q are not NaN (the witnesses of a proof check against
\* its program, which therefore loads).
C38_DeclaredCountIgnored ==
    Reported({"BestEffort", "BestEffortAdaptive"}) =>
        LET pf == verifier.report.proof
        IN  /\ \A w \in {IF Len(pf.vset) >= pf.params.v
                           THEN Len(pf.vset) + 1 ELSE 0} :
                   SameVerdict(CheckedWith(pf, w, verifier.epsilon))
            /\ (/\ Len(pf.vset) < pf.params.v
                /\ NoNaN
                /\ InstrumentedVM_new(pf.params.program_file).ok
                /\ \A k \in 1..Len(pf.vset) :
                       WitnessPasses(pf, pf.params.input_domain, pf.vset[k]))
               => verifier.report.valid

\* one witness that checks where MaxWitnesses are declared, accepted
C38_Witness ==
    /\ Reported({"BestEffort"})
    /\ Len(verifier.report.proof.vset) = 1
    /\ verifier.report.proof.params.v = MaxWitnesses
    /\ NoNaN
    /\ verifier.report.valid

\* obtain_proof has been called and has run the program
Obtained ==
    /\ prover.status \in {"returned", "panicked", "hung"}
    /\ "executed" \in DOMAIN prover

\* C39: obtain_proof returns a Proof only if every input it executed halted
\* with answer 0: under every strategy, when an iterated input ends in a
\* fault or a non-zero answer the prover aborts and no proof is produced;
\* the failing input is the last one executed, neither skipped nor recorded
\* as a non-witness.
C39_ProverAborts ==
    Obtained =>
        LET file == prover.params.program_file
            Of(k, r) ==
                /\ prover.status = "returned" => ~r.hung /\ HaltsZero(r.trace)
                /\ (~r.hung /\ (Faults(ProgramOf(file), r.trace)
                                   \/ HaltsNonZero(r.trace))) =>
                      /\ prover.status = "panicked"
                      /\ ~proof.some
                      /\ k = Len(prover.executed)
        IN  /\ prover.status = "returned" => proof.some
            /\ \A k \in 1..Len(prover.executed) :
                   Of(k, RunOf(file, prover.executed[k]))

\* the prover has run two inputs that halt with answer 0 and has aborted on
\* a third that halts with answer 3
C39_Witness ==
    /\ Obtained
    /\ prover.status = "panicked"
    /\ ~proof.some
    /\ Len(prover.executed) = 3
    /\ LET Of(r) == ~r.hung /\ HaltsNonZero(r.trace)
       IN  Of(RunOf(prover.params.program_file, prover.executed[3]))

\* the domain an OverTesting proof asks to be validated over
GivenDomain(pf) ==
    IF pf.extended_domain.some THEN pf.extended_domain.value
    ELSE pf.params.input_domain

\* C40: under OverTesting the validation domain is the one the proof gives:
\* every witness of an accepted proof lies in proof.extended_domain when it
\* is present and in params.input_domain when it is absent; a proof whose
\* program loads, whose witnesses all pass over that domain and are at least
\* params.v, with neither eta nor q NaN, is accepted whether or not the
\* extended domain starts at lo or contains the declared domain; eta and q
\* are those computed with u = hi - lo of the declared domain.
C40_DomainAsGiven ==
    Reported({"OverTesting"}) =>
        LET pf == verifier.report.proof
        IN  /\ verifier.report.valid =>
                  \A k \in 1..Len(pf.vset) :
                      Range_contains(GivenDomain(pf), pf.vset[k])
            /\ (/\ Len(pf.vset) >= pf.params.v
                /\ NoNaN
                /\ InstrumentedVM_new(pf.params.program_file).ok
                /\ \A k \in 1..Len(pf.vset) :
                       WitnessPasses(pf, GivenDomain(pf), pf.vset[k]))
               => verifier.report.valid
            /\ verifier.report.eta =
                  gsl_eta[<<pf.params.kappa,
                            pf.params.input_domain.end - pf.params.input_domain.start,
                            Len(pf.vset)>>]
            /\ verifier.report.q =
                  gsl_q[<<pf.params.kappa,
                          pf.params.input_domain.end - pf.params.input_domain.start,
                          Len(pf.vset)>>]

\* an accepted proof whose extended domain starts after lo and leaves out
\* an input of the declared domain
C40_Witness ==
    /\ Reported({"OverTesting"})
    /\ verifier.report.valid
    /\ verifier.report.proof.vset # <<>>
    /\ verifier.report.proof.extended_domain.some
    /\ verifier.report.proof.extended_domain.value.start
          > verifier.report.proof.params.input_domain.start
    /\ Range_contains(verifier.report.proof.params.input_domain,
                      verifier.report.proof.params.input_domain.start)

====
